---- MODULE Spec2Model ----
(***************************************************************************)
(* A model of the subtitle translation orchestrator of VidScaler           *)
(* (translator.py): the resolution of the auto-mode fallback order and of  *)
(* the German preset from the environment, and SubtitleTranslator's        *)
(* translate_srt with its four request methods.                            *)
(*                                                                         *)
(* Python strings that the code inspects character by character (the       *)
(* fallback order override, the preset overrides, the target language) are *)
(* sequences of one-character strings, so that split, strip, lower, int    *)
(* and float are computed the way the code computes them. An Optional      *)
(* value is a sequence of length 0 (None) or 1 (the value).                *)
(* A float is the integer number of its hundredths (1.35 is 135).          *)
(***************************************************************************)
EXTENDS Integers, Sequences, FiniteSets, TLC

VARIABLES
    avail,          \* module flags: SMART_TRANSLATION_AVAILABLE, OPENAI_PROVIDER_AVAILABLE,
                    \*               TRANSLATORS_AVAILABLE, WHISPER_AVAILABLE
    self,           \* SubtitleTranslator attributes: has_translators, has_whisper, whisper_translator
    args,           \* arguments of the running translate_srt call
    os_environ,     \* the environment entries read so far (None until the code reads them)
    pc,             \* position of the running call
    order,          \* translate_srt's local `order`
    idx,            \* 1-based position of the auto loop in `order`
    last_err,       \* translate_srt's local `last_err` (Optional)
    log,            \* records emitted through debug_logger during the call
    calls,          \* invocations of the providers' translation routines, in order
    whisper_steps,  \* expensive steps the whisper path has started
    result,         \* outcome of the call
    de,             \* the DePreset last resolved by _get_de_preset (Optional)
    given,          \* the fallback-order overrides as written: their comma-separated tokens
    blocks,         \* smart_translation: the cues (SRTBlock) a function is applied to
    max_chars,      \* _split_into_sentence_groups' length ceiling
    translated_full, \* the translated text given to the timing reconciler
    fs,             \* the files: path |-> content (Optional)
    cache,          \* the JsonCache of the running process (Optional)
    history,        \* the translate_text requests served so far
    ret             \* smart_translation: what the function returned (Optional)

trans_vars == <<avail, self, args, os_environ, pc, order, idx, last_err, log, calls,
                whisper_steps, result, de, given>>

trans_vars_but_pc == <<avail, self, args, os_environ, order, idx, last_err, log, calls,
                       whisper_steps, result, de, given>>

smart_vars == <<blocks, max_chars, translated_full, fs, cache, history, ret>>

vars == <<trans_vars, smart_vars>>

\* smart_translation.py at rest
SmartIdle ==
    /\ blocks = <<>> /\ max_chars = 0 /\ translated_full = <<>>
    /\ fs = <<>> /\ cache = <<>> /\ history = <<>> /\ ret = <<>>

-----------------------------------------------------------------------------
(* Bounds of the model.                                                    *)

\* longest fallback-order override, in comma-separated tokens (SpecOrder)
MaxTokens == 3

\* longest cue sequence given to the sentence grouper and to the timing
\* reconciler (SpecGroups, SpecDistribute)
MaxBlocks == 4

\* longest cue sequence written and parsed back (SpecRoundTrip) and most
\* blocks in a file given to the translators backend (SpecGoogle)
MaxCues == 2

\* most translate_text requests made against one cache file (SpecCache)
MaxRequests == 2

\* most well-formed blocks in a validated subtitle file (SpecValidate)
MaxSegments == 4

\* longest list of Whisper segments mapped onto the cues (SpecWhisperMap)
MaxWhisperSegments == 2

-----------------------------------------------------------------------------
(* Python's Optional and str primitives.                                   *)

None == <<>>
Some(v) == <<v>>
IsNone(o) == Len(o) = 0
\* Python truthiness of an Optional[str]: None and "" are falsy
Truthy(o) == Len(o) = 1 /\ Len(o[1]) > 0

UPPER == <<"A","B","C","D","E","F","G","H","I","J","K","L","M",
           "N","O","P","Q","R","S","T","U","V","W","X","Y","Z">>
LOWER == <<"a","b","c","d","e","f","g","h","i","j","k","l","m",
           "n","o","p","q","r","s","t","u","v","w","x","y","z">>
DIGITS == <<"0","1","2","3","4","5","6","7","8","9">>

lower_char(c) ==
    IF \E i \in DOMAIN UPPER : UPPER[i] = c
    THEN LOWER[CHOOSE i \in DOMAIN UPPER : UPPER[i] = c]
    ELSE c

\* str.lower()
str_lower(s) == [i \in 1..Len(s) |-> lower_char(s[i])]

is_space(c) == c \in {" ", "\t", "\n", "\r"}

RECURSIVE str_lstrip(_)
str_lstrip(s) ==
    IF Len(s) > 0 /\ is_space(s[1]) THEN str_lstrip(Tail(s)) ELSE s

RECURSIVE str_rstrip(_)
str_rstrip(s) ==
    IF Len(s) > 0 /\ is_space(s[Len(s)])
    THEN str_rstrip(SubSeq(s, 1, Len(s) - 1))
    ELSE s

\* str.strip()
str_strip(s) == str_rstrip(str_lstrip(s))

\* str.split(sep) for a one-character separator: "".split(",") is [""]
RECURSIVE str_split(_, _)
str_split(s, sep) ==
    IF \E i \in 1..Len(s) : s[i] = sep
    THEN LET i == CHOOSE k \in 1..Len(s) :
                      s[k] = sep /\ \A j \in 1..(k - 1) : s[j] # sep
         IN <<SubSeq(s, 1, i - 1)>> \o str_split(SubSeq(s, i + 1, Len(s)), sep)
    ELSE <<s>>

\* str.startswith(prefix)
str_startswith(s, prefix) ==
    Len(s) >= Len(prefix) /\ SubSeq(s, 1, Len(prefix)) = prefix

\* sep.join(parts)
RECURSIVE str_join(_, _)
str_join(parts, sep) ==
    IF Len(parts) = 0 THEN <<>>
    ELSE IF Len(parts) = 1 THEN parts[1]
    ELSE parts[1] \o <<sep>> \o str_join(Tail(parts), sep)

-----------------------------------------------------------------------------
(* _get_auto_fallback_order                                                *)

S_openai  == <<"o","p","e","n","a","i">>
S_google  == <<"g","o","o","g","l","e">>
S_whisper == <<"w","h","i","s","p","e","r">>
S_auto    == <<"a","u","t","o">>
S_en      == <<"e","n">>
S_de      == <<"d","e">>

\* the literal "openai,google,whisper" of line 31
DEFAULT_ORDER_RAW == str_join(<<S_openai, S_google, S_whisper>>, ",")

\* the set `valid` of line 33
valid == {S_openai, S_google, S_whisper}

\* line 32 without lower(): a plausible slip
_get_auto_fallback_order_nolower(srt_fallback_order, smart_srt_fallback_order) ==
    LET raw == IF Truthy(srt_fallback_order) THEN srt_fallback_order[1]
               ELSE IF Truthy(smart_srt_fallback_order) THEN smart_srt_fallback_order[1]
               ELSE DEFAULT_ORDER_RAW
        toks == str_split(raw, ",")
        kept == SelectSeq(toks, LAMBDA t : Len(str_strip(t)) > 0)
        ord  == [i \in 1..Len(kept) |-> str_strip(kept[i])]
    IN SelectSeq(ord, LAMBDA m : m \in valid)

\* _get_auto_fallback_order(): the two arguments are os.getenv("SRT_FALLBACK_ORDER")
\* and os.getenv("SMART_SRT_FALLBACK_ORDER")
_get_auto_fallback_order(srt_fallback_order, smart_srt_fallback_order) ==
    LET raw == IF Truthy(srt_fallback_order) THEN srt_fallback_order[1]
               ELSE IF Truthy(smart_srt_fallback_order) THEN smart_srt_fallback_order[1]
               ELSE DEFAULT_ORDER_RAW
        toks == str_split(raw, ",")
        kept == SelectSeq(toks, LAMBDA t : Len(str_strip(t)) > 0)
        ord  == [i \in 1..Len(kept) |-> str_lower(str_strip(kept[i]))]
    IN SelectSeq(ord, LAMBDA m : m \in valid)

-----------------------------------------------------------------------------
(* _get_de_preset                                                          *)

digit_value(c) == (CHOOSE i \in DOMAIN DIGITS : DIGITS[i] = c) - 1
is_digit(c) == \E i \in DOMAIN DIGITS : DIGITS[i] = c

\* a run of digits in which single underscores may separate digits (PEP 515)
is_digit_run(s) ==
    /\ Len(s) > 0
    /\ is_digit(s[1]) /\ is_digit(s[Len(s)])
    /\ \A i \in 1..Len(s) : is_digit(s[i]) \/ s[i] = "_"
    /\ \A i \in 1..(Len(s) - 1) : ~(s[i] = "_" /\ s[i + 1] = "_")

RECURSIVE digits_value(_)
digits_value(s) ==
    IF Len(s) = 0 THEN 0
    ELSE LET front == digits_value(SubSeq(s, 1, Len(s) - 1))
         IN IF s[Len(s)] = "_" THEN front ELSE front * 10 + digit_value(s[Len(s)])

has_sign(t) == Len(t) > 0 /\ t[1] \in {"+", "-"}
unsigned(t) == IF has_sign(t) THEN Tail(t) ELSE t
sign_of(t) == IF Len(t) > 0 /\ t[1] = "-" THEN -1 ELSE 1

\* int(s): Some(value), or None where Python raises ValueError
py_int(s) ==
    LET t == str_strip(s)
    IN IF is_digit_run(unsigned(t))
       THEN Some(sign_of(t) * digits_value(unsigned(t)))
       ELSE None

\* the hundredths of a fraction part (digits after the point), at most
\* two digits being drawn
frac_hundredths(f) ==
    IF Len(f) = 0 THEN 0
    ELSE IF Len(f) = 1 THEN 10 * digit_value(f[1])
    ELSE 10 * digit_value(f[1]) + digit_value(f[2])

\* float(s) in hundredths: Some(value), or None where Python raises
\* ValueError. Decimal literals only: the overrides drawn hold no exponent
\* and no inf/nan spelling.
py_float(s) ==
    LET t == str_strip(s)
        u == unsigned(t)
        parts == str_split(u, ".")
    IN IF Len(parts) = 1 /\ is_digit_run(u)
       THEN Some(sign_of(t) * 100 * digits_value(u))
       ELSE IF /\ Len(parts) = 2
               /\ Len(parts[1]) + Len(parts[2]) > 0
               /\ (Len(parts[1]) = 0 \/ is_digit_run(parts[1]))
               /\ (Len(parts[2]) = 0 \/ is_digit_run(parts[2]))
       THEN Some(sign_of(t) * (100 * digits_value(parts[1]) + frac_hundredths(parts[2])))
       ELSE None

\* _int(name, default), given os.getenv(name): an unset variable reads as
\* str(default)
_int(value, default) ==
    IF IsNone(value) THEN default
    ELSE IF IsNone(py_int(value[1])) THEN default ELSE py_int(value[1])[1]

\* _float(name, default), in hundredths
_float(value, default) ==
    IF IsNone(value) THEN default
    ELSE IF IsNone(py_float(value[1])) THEN default ELSE py_float(value[1])[1]

Max(a, b) == IF a >= b THEN a ELSE b

\* the names of the five overrides, in the order of the record's fields
DE_ENV_NAMES == {"SRT_DE_WRAP", "SRT_DE_EXPANSION_FACTOR", "SRT_DE_MIN_SEG_DUR",
                 "SRT_DE_READING_WPM", "SRT_DE_MIN_GAP_MS"}

\* _get_de_preset in which one failed parse discards every override
_get_de_preset_allornothing(env) ==
    IF \/ (~IsNone(env["SRT_DE_WRAP"]) /\ IsNone(py_int(env["SRT_DE_WRAP"][1])))
       \/ (~IsNone(env["SRT_DE_EXPANSION_FACTOR"])
             /\ IsNone(py_float(env["SRT_DE_EXPANSION_FACTOR"][1])))
       \/ (~IsNone(env["SRT_DE_MIN_SEG_DUR"])
             /\ IsNone(py_float(env["SRT_DE_MIN_SEG_DUR"][1])))
       \/ (~IsNone(env["SRT_DE_READING_WPM"]) /\ IsNone(py_int(env["SRT_DE_READING_WPM"][1])))
       \/ (~IsNone(env["SRT_DE_MIN_GAP_MS"]) /\ IsNone(py_int(env["SRT_DE_MIN_GAP_MS"][1])))
    THEN [ wrap_width |-> 120, expansion_factor |-> 135, min_seg_dur |-> 220,
           reading_wpm |-> 200, min_gap_ms |-> 120 ]
    ELSE [ wrap_width       |-> Max(100, _int(env["SRT_DE_WRAP"], 120)),
           expansion_factor |-> _float(env["SRT_DE_EXPANSION_FACTOR"], 135),
           min_seg_dur      |-> _float(env["SRT_DE_MIN_SEG_DUR"], 220),
           reading_wpm      |-> _int(env["SRT_DE_READING_WPM"], 200),
           min_gap_ms       |-> _int(env["SRT_DE_MIN_GAP_MS"], 120) ]

\* _get_de_preset(): env maps each name of DE_ENV_NAMES to os.getenv(name)
_get_de_preset(env) ==
    [ wrap_width       |-> Max(100, _int(env["SRT_DE_WRAP"], 120)),
      expansion_factor |-> _float(env["SRT_DE_EXPANSION_FACTOR"], 135),
      min_seg_dur      |-> _float(env["SRT_DE_MIN_SEG_DUR"], 220),
      reading_wpm      |-> _int(env["SRT_DE_READING_WPM"], 200),
      min_gap_ms       |-> _int(env["SRT_DE_MIN_GAP_MS"], 120) ]

-----------------------------------------------------------------------------
(* Values of the orchestrator                                              *)

S_sk_proj == <<"s","k","-","p","r","o","j">>

\* exceptions, by the place that raises them
E_PROVIDER_NA   == "RuntimeError: OpenAI provider not available"
E_OPENAI_PKG    == "RuntimeError: openai package not available"
E_NO_KEY        == "RuntimeError: OPENAI_API_KEY is not set"
E_PROJ_KEY      == "RuntimeError: Project key detected"
E_SMART         == "Exception: smart_translate_srt failed"
E_GOOGLE_IO     == "OSError: _translate_srt_google"
E_WHISPER_IMPORT == "ImportError: Whisper not available"
E_WHISPER_LANG  == "Exception: Whisper kann nur nach Englisch"
E_WHISPER_TL    == "Exception: Whisper translate task only supports English output"
E_WHISPER_FAILED == "Exception: Whisper-Uebersetzung fehlgeschlagen"
E_METHOD_NA     == "Exception: Uebersetzungsmethode nicht verfuegbar oder Video-Pfad fehlt"
E_AUTO_NONE     == "Exception: No available translation method succeeded in AUTO mode"

\* missing credential or missing provider dependency, detected while a
\* provider is constructed
ConfigErrors == {E_PROVIDER_NA, E_OPENAI_PKG, E_NO_KEY, E_PROJ_KEY, E_WHISPER_IMPORT}

\* the provider a method name stands for
ProviderOf(m) ==
    IF m = S_openai THEN "openai"
    ELSE IF m = S_google THEN "google"
    ELSE IF m = S_whisper THEN "whisper"
    ELSE "-"

NoResult == [kind |-> "none", by |-> "-", err |-> "-"]
Path(provider) == [kind |-> "path", by |-> provider, err |-> "-"]
Raise(e) == [kind |-> "error", by |-> "-", err |-> e]

\* one debug_logger.step / .debug / .error call
LogRec(level, msg, m, exc) == [level |-> level, msg |-> msg, m |-> m, exc |-> exc]

\* one invocation of a provider's translation routine
Call(routine, provider, kwargs) ==
    [routine |-> routine, provider |-> provider, kwargs |-> kwargs]

ENV_NAMES == {"SRT_FALLBACK_ORDER", "SMART_SRT_FALLBACK_ORDER"} \cup DE_ENV_NAMES
EnvUnread == [n \in ENV_NAMES |-> None]
DeEnvOf(env) == [n \in DE_ENV_NAMES |-> env[n]]

-----------------------------------------------------------------------------
(* The providers                                                           *)

\* OpenAITranslator.__init__: None when the provider is constructed, else
\* the RuntimeError raised. api_key is `file_key or env_key`.
OpenAITranslator_init(has_openai_v1, has_openai_legacy, api_key) ==
    IF ~(has_openai_v1 \/ has_openai_legacy) THEN Some(E_OPENAI_PKG)
    ELSE IF Len(api_key) = 0 THEN Some(E_NO_KEY)
    ELSE IF str_startswith(api_key, S_sk_proj) /\ ~has_openai_v1 THEN Some(E_PROJ_KEY)
    ELSE None

\* WhisperTranslator.__init__
WhisperTranslator_init(whisper_available) ==
    IF ~whisper_available THEN Some(E_WHISPER_IMPORT) ELSE None

\* the steps of translate_via_whisper's try block, in order
WHISPER_STEPS == <<"extract_audio", "load_model", "parse_srt_timing", "transcribe",
                   "map_timing", "create_srt">>

StepsThrough(step) ==
    SubSeq(WHISPER_STEPS, 1, CHOOSE i \in DOMAIN WHISPER_STEPS : WHISPER_STEPS[i] = step)

\* WhisperTranslator.translate_via_whisper: the steps it starts and the
\* exception it raises (None: it returns the output path). fails_at is the
\* step that raises, or "none".
translate_via_whisper(target_lang, fails_at) ==
    IF target_lang # S_en
    THEN [steps |-> <<>>, err |-> Some(E_WHISPER_TL)]
    ELSE IF fails_at = "none"
    THEN [steps |-> WHISPER_STEPS, err |-> None]
    ELSE [steps |-> StepsThrough(fails_at), err |-> Some(E_WHISPER_FAILED)]

\* is_de of lines 423 and 564
is_de(target_lang) == str_startswith(str_lower(target_lang), S_de)

\* the auto branch's keyword arguments with the German branches swapped
smart_kwargs_auto_swapped(target_lang, de_readability_optimization, d) ==
    IF is_de(target_lang) /\ ~de_readability_optimization
    THEN [ expand_timing |-> TRUE,
           expansion_factor |-> d.expansion_factor,
           min_segment_duration |-> d.min_seg_dur,
           reading_speed_wpm |-> d.reading_wpm,
           min_gap_ms |-> d.min_gap_ms,
           wrap_width |-> Max(100, d.wrap_width),
           balance |-> FALSE, smooth |-> FALSE ]
    ELSE IF is_de(target_lang)
    THEN [ preserve_timing |-> TRUE,
           wrap_width |-> Max(100, d.wrap_width),
           balance |-> FALSE, smooth |-> FALSE ]
    ELSE [ wrap_width |-> 120, balance |-> FALSE, smooth |-> FALSE ]

\* keyword arguments of smart_translate_srt in the auto branch (lines 423-481)
smart_kwargs_auto(target_lang, de_readability_optimization, d) ==
    IF is_de(target_lang) /\ de_readability_optimization
    THEN [ expand_timing |-> TRUE,
           expansion_factor |-> d.expansion_factor,
           min_segment_duration |-> d.min_seg_dur,
           reading_speed_wpm |-> d.reading_wpm,
           min_gap_ms |-> d.min_gap_ms,
           wrap_width |-> Max(100, d.wrap_width),
           balance |-> FALSE, smooth |-> FALSE ]
    ELSE IF is_de(target_lang)
    THEN [ preserve_timing |-> TRUE,
           wrap_width |-> Max(100, d.wrap_width),
           balance |-> FALSE, smooth |-> FALSE ]
    ELSE [ wrap_width |-> 120, balance |-> FALSE, smooth |-> FALSE ]

\* the explicit branch's keyword arguments with the preset's wrap width
\* used for every target language
smart_kwargs_openai_preset_wrap(target_lang, de_readability_optimization, d) ==
    IF is_de(target_lang)
    THEN smart_kwargs_auto(target_lang, de_readability_optimization, d)
    ELSE [ wrap_width |-> Max(100, d.wrap_width), balance |-> FALSE, smooth |-> FALSE ]

\* keyword arguments of smart_translate_srt in the explicit branch (lines 564-622)
smart_kwargs_openai(target_lang, de_readability_optimization, d) ==
    IF is_de(target_lang) /\ de_readability_optimization
    THEN [ expand_timing |-> TRUE,
           expansion_factor |-> d.expansion_factor,
           min_segment_duration |-> d.min_seg_dur,
           reading_speed_wpm |-> d.reading_wpm,
           min_gap_ms |-> d.min_gap_ms,
           wrap_width |-> Max(100, d.wrap_width),
           balance |-> FALSE, smooth |-> FALSE ]
    ELSE IF is_de(target_lang)
    THEN [ preserve_timing |-> TRUE,
           wrap_width |-> Max(100, d.wrap_width),
           balance |-> FALSE, smooth |-> FALSE ]
    ELSE [ wrap_width |-> 120, balance |-> FALSE, smooth |-> FALSE ]

-----------------------------------------------------------------------------
(* translator.py: SubtitleTranslator.parse_srt, translate_text and          *)
(* _translate_srt_google; the subtitle files given to them                  *)

\* a timestamp hh:mm:ss,mmm n seconds in
TimeOf(n) == <<"0","0",":","0","0",":","0",DIGITS[n + 1],",","0","0","0">>

\* str(n) for an int
RECURSIVE nat_str(_)
nat_str(n) ==
    IF n < 10 THEN <<DIGITS[n + 1]>>
    ELSE nat_str(n \div 10) \o <<DIGITS[(n % 10) + 1]>>

int_str(n) == IF n < 0 THEN <<"-">> \o nat_str(0 - n) ELSE nat_str(n)

RECURSIVE join_str(_, _)
\* sep.join(parts) for a separator of any length
join_str(parts, sep) ==
    IF Len(parts) = 0 THEN <<>>
    ELSE IF Len(parts) = 1 THEN parts[1]
    ELSE parts[1] \o sep \o join_str(Tail(parts), sep)

Segment(index, timestamp, text) == [index |-> index, timestamp |-> timestamp, text |-> text]

\* the blocks of a subtitle file with the texts q from the i-th on, numbered
\* from `first`
RECURSIVE segment_blocks(_, _, _)
segment_blocks(q, i, first) ==
    IF i > Len(q) THEN <<>>
    ELSE <<nat_str(first + i - 1) \o <<"\n">> \o TimeOf(i - 1) \o <<" ","-","-",">"," ">>
           \o TimeOf(i) \o (IF Len(q[i]) > 0 THEN <<"\n">> \o q[i] ELSE <<>>)>>
         \o segment_blocks(q, i + 1, first)

\* a block whose first line is not a number
BadBlock == <<"x","\n">> \o TimeOf(0) \o <<" ","-","-",">"," ">> \o TimeOf(1) \o <<"\n","a">>

\* the file: the blocks separated by blank lines, a newline at the end
SegmentFile(bad, first, q) ==
    join_str((IF bad THEN <<BadBlock>> ELSE <<>>) \o segment_blocks(q, 1, first),
             <<"\n","\n">>) \o <<"\n">>

\* content.split('\n\n')
RECURSIVE split_double_newline(_)
split_double_newline(s) ==
    IF \E i \in 1..(Len(s) - 1) : s[i] = "\n" /\ s[i + 1] = "\n"
    THEN LET i == CHOOSE k \in 1..(Len(s) - 1) :
                      /\ s[k] = "\n" /\ s[k + 1] = "\n"
                      /\ \A j \in 1..(k - 1) : ~(s[j] = "\n" /\ s[j + 1] = "\n")
         IN <<SubSeq(s, 1, i - 1)>> \o split_double_newline(SubSeq(s, i + 2, Len(s)))
    ELSE <<s>>

\* the loop of SubtitleTranslator.parse_srt over the blocks from the i-th on
RECURSIVE translator_segments_of(_, _)
translator_segments_of(bls, i) ==
    IF i > Len(bls) THEN <<>>
    ELSE LET block == str_strip(bls[i])
             lines == str_split(block, "\n")
         IN (IF Len(block) = 0 THEN <<>>
             ELSE IF Len(lines) < 3 THEN <<>>
             ELSE IF IsNone(py_int(lines[1])) THEN <<>>
             ELSE <<Segment(py_int(lines[1])[1], lines[2],
                            str_strip(join_str(SubSeq(lines, 3, Len(lines)), <<"\n">>)))>>)
            \o translator_segments_of(bls, i + 1)

\* SubtitleTranslator.parse_srt for the content of the file
translator_parse_srt(content) ==
    translator_segments_of(split_double_newline(str_strip(content)), 1)

\* what ts.translate_text does for one text: it raises, or returns a text
Outcome(raises, translated) == [raises |-> raises, translated |-> translated]

\* translate_text that lets the backend's exception through
translate_text_raising(text, source_lang, target_lang, outcome) ==
    IF source_lang = target_lang THEN [err |-> None, text |-> text]
    ELSE IF outcome.raises THEN [err |-> Some("Exception: ts.translate_text"), text |-> text]
    ELSE [err |-> None, text |-> outcome.translated]

\* SubtitleTranslator.translate_text: the text returned and the exception
\* raised (never one: the except clause returns the text)
translate_text(text, source_lang, target_lang, outcome) ==
    IF source_lang = target_lang THEN [err |-> None, text |-> text]
    ELSE IF outcome.raises THEN [err |-> None, text |-> text]
    ELSE [err |-> None, text |-> outcome.translated]

\* the ts.translate_text calls made for the segments: none when the
\* languages are equal
backend_calls(segments, source_lang, target_lang, outcomes) ==
    IF source_lang = target_lang THEN <<>>
    ELSE [i \in 1..Len(segments) |->
             [text |-> segments[i].text,
              from_language |-> IF source_lang = S_auto THEN None ELSE Some(source_lang),
              to_language |-> target_lang,
              raised |-> outcomes[i].raises]]

\* the text written to the output file for the segments from the i-th on
RECURSIVE translated_srt_text(_, _)
translated_srt_text(segments, i) ==
    IF i > Len(segments) THEN <<>>
    ELSE int_str(segments[i].index) \o <<"\n">> \o segments[i].timestamp \o <<"\n">>
         \o segments[i].text \o <<"\n","\n">> \o translated_srt_text(segments, i + 1)

\* _translate_srt_google for the content of the input file, the outcome of
\* the backend for each segment and the outcome of the file operations
\* ("ok", "read_error", "write_error"): the exception raised if any, the
\* backend calls made, the translated segments and the text written
_translate_srt_google(content, source_lang, target_lang, outcomes, io) ==
    IF io = "read_error"
    THEN [err |-> Some(E_GOOGLE_IO), backend |-> <<>>, translated_segments |-> <<>>,
          written |-> None]
    ELSE LET segments == translator_parse_srt(content)
             n == Len(segments)
             results == [i \in 1..n |->
                            translate_text(segments[i].text, source_lang, target_lang,
                                           outcomes[i])]
             failed == {i \in 1..n : ~IsNone(results[i].err)}
             done == IF failed = {} THEN n
                     ELSE (CHOOSE i \in failed : \A j \in failed : i <= j) - 1
             translated == [i \in 1..done |->
                               Segment(segments[i].index, segments[i].timestamp,
                                       results[i].text)]
             backend == backend_calls(segments, source_lang, target_lang, outcomes)
         IN IF failed # {}
            THEN [err |-> results[done + 1].err,
                  backend |-> SubSeq(backend, 1, done + 1),
                  translated_segments |-> translated, written |-> None]
            ELSE IF io = "write_error"
            THEN [err |-> Some(E_GOOGLE_IO), backend |-> backend,
                  translated_segments |-> translated, written |-> None]
            ELSE [err |-> None, backend |-> backend, translated_segments |-> translated,
                  written |-> Some(translated_srt_text(translated, 1))]

\* the cue texts of the input: none, a word, two lines
GoogleTexts == { <<>>, <<"a">>, <<"a","\n","b">> }
GoogleOutcomes == { Outcome(TRUE, <<>>), Outcome(FALSE, <<"x">>), Outcome(FALSE, <<>>) }
FileOutcomes == {"ok", "read_error", "write_error"}

\* the subtitle file a translate_srt call is given: two cues, the second of
\* two lines
InputSrt == SegmentFile(FALSE, 1, << <<"a">>, <<"a","\n","b">> >>)

\* the source language of the translate_srt calls
SOURCE_LANG == S_auto

\* the backend's outcomes within a translate_srt call: it raises or answers
CallOutcomes == { Outcome(TRUE, <<>>), Outcome(FALSE, <<"x">>) }

-----------------------------------------------------------------------------
(* Inputs                                                                  *)

SeqsUpTo(S, n) == UNION {[1..k -> S] : k \in 0..n}

S_deepl == <<"d","e","e","p","l">>
S_DE_AT == <<"D","E","-","A","T">>

Methods == {S_auto, S_openai, S_google, S_whisper, S_deepl}
TargetLangs == {S_en, S_de, S_DE_AT}
VideoPaths == {None, Some(<<"v">>)}
ApiKeys == {<<>>, <<"s","k","-","a">>, S_sk_proj \o <<"-","a">>}
WhisperFailures == {"none", "extract_audio", "transcribe"}

\* the fallback-order overrides a translate_srt call may find: unset, or
\* the known names in any order, each at most once ("" when none)
OrderNamesCall == {S_openai, S_google, S_whisper}
OrdersCall ==
    {q \in SeqsUpTo(OrderNamesCall, Cardinality(OrderNamesCall)) :
        \A i, j \in DOMAIN q : i # j => q[i] # q[j]}
OrderOverridesCall == {None} \cup {Some(str_join(q, ",")) : q \in OrdersCall}
SecondOverridesCall == {None, Some(str_join(<<S_whisper, S_google>>, ","))}

V_150  == <<"1","5","0">>
V_80   == <<"8","0">>
V_1_5  == <<"1",".","5">>
V_180  == <<" ","1","8","0"," ">>
V_abc  == <<"a","b","c">>
V_empty == <<>>

\* the preset overrides a translate_srt call may find
DeEnvsCall ==
    {[n \in DE_ENV_NAMES |->
        IF n = "SRT_DE_WRAP" THEN w
        ELSE IF n = "SRT_DE_EXPANSION_FACTOR" THEN x ELSE None] :
     w \in {None, Some(V_80)}, x \in {None, Some(V_1_5)}}

-----------------------------------------------------------------------------
(* SubtitleTranslator.translate_srt                                        *)

\* the branch an auto-loop iteration takes, with whisper's language test dropped
auto_branch_nolang(m, av, slf, a) ==
    IF m = S_openai /\ av.SMART_TRANSLATION_AVAILABLE THEN "openai"
    ELSE IF m = S_google /\ av.TRANSLATORS_AVAILABLE THEN "google"
    ELSE IF m = S_whisper /\ slf.has_whisper /\ Truthy(a.video_path) THEN "whisper"
    ELSE "skip"

\* the branch an auto-loop iteration takes, with google's availability test dropped
auto_branch_google_always(m, av, slf, a) ==
    IF m = S_openai /\ av.SMART_TRANSLATION_AVAILABLE THEN "openai"
    ELSE IF m = S_google THEN "google"
    ELSE IF /\ m = S_whisper /\ slf.has_whisper /\ Truthy(a.video_path)
            /\ a.target_lang = S_en THEN "whisper"
    ELSE "skip"

\* the branch an auto-loop iteration takes for candidate m (lines 408, 519, 525)
auto_branch(m, av, slf, a) ==
    IF m = S_openai /\ av.SMART_TRANSLATION_AVAILABLE THEN "openai"
    ELSE IF m = S_google /\ av.TRANSLATORS_AVAILABLE THEN "google"
    ELSE IF /\ m = S_whisper /\ slf.has_whisper /\ Truthy(a.video_path)
            /\ a.target_lang = S_en THEN "whisper"
    ELSE "skip"

\* the except clause keeping the first error instead of the latest
auto_record_error_first(prev, e) == IF IsNone(prev) THEN Some(e) ELSE prev

\* `last_err = e` of line 536
auto_record_error(prev, e) == Some(e)

\* what the auto branch raises after the loop (lines 539-541)
auto_exhausted(prev) == IF ~IsNone(prev) THEN prev[1] ELSE E_AUTO_NONE

\* the branch an explicit request takes (lines 544, 687, 697, 701)
explicit_branch(a, av, slf) ==
    IF a.method = S_openai /\ av.SMART_TRANSLATION_AVAILABLE THEN "openai"
    ELSE IF a.method = S_whisper /\ slf.has_whisper /\ Truthy(a.video_path) THEN "whisper"
    ELSE IF a.method = S_google /\ slf.has_translators THEN "google"
    ELSE "unavailable"

\* the explicit openai branch's except clause without its `raise` for an
\* explicit request
openai_except_fallback(a, av, slf) ==
    IF av.TRANSLATORS_AVAILABLE THEN "google"
    ELSE IF slf.has_whisper /\ Truthy(a.video_path) /\ a.target_lang = S_en THEN "whisper"
    ELSE "raise"

\* the except clause of the explicit openai branch (lines 660-685)
openai_except(a, av, slf) ==
    IF a.method = S_openai THEN "raise"
    ELSE IF av.TRANSLATORS_AVAILABLE THEN "google"
    ELSE IF slf.has_whisper /\ Truthy(a.video_path) /\ a.target_lang = S_en THEN "whisper"
    ELSE "raise"

\* the explicit whisper branch without its language test
whisper_rejects_never(target_lang) == FALSE

\* `if target_lang != "en": raise` of lines 689-690
whisper_rejects(target_lang) == target_lang # S_en

NoArgs == [method |-> <<>>, target_lang |-> <<>>, video_path |-> None,
           de_readability_optimization |-> FALSE]
NoGiven == [first |-> None, second |-> None]

\* the module flags after the imports of lines 72-102: the provider import
\* is tried only inside the package import
Flags ==
    {f \in [SMART_TRANSLATION_AVAILABLE : BOOLEAN, OPENAI_PROVIDER_AVAILABLE : BOOLEAN,
            TRANSLATORS_AVAILABLE : BOOLEAN, WHISPER_AVAILABLE : BOOLEAN] :
        f.OPENAI_PROVIDER_AVAILABLE => f.SMART_TRANSLATION_AVAILABLE}

\* SubtitleTranslator.__init__
Init ==
    /\ avail \in Flags
    /\ self = [has_translators |-> avail.TRANSLATORS_AVAILABLE,
               has_whisper |-> avail.WHISPER_AVAILABLE,
               whisper_translator |-> "None"]
    /\ args = NoArgs
    /\ os_environ = EnvUnread
    /\ pc = "idle"
    /\ order = <<>>
    /\ idx = 0
    /\ last_err = None
    /\ log = <<>>
    /\ calls = <<>>
    /\ whisper_steps = <<>>
    /\ result = NoResult
    /\ de = None
    /\ given = NoGiven
    /\ blocks = <<>> /\ max_chars = 0 /\ translated_full = <<>>
    /\ fs = [input_path |-> Some(InputSrt), output_path |-> None]
    /\ cache = None /\ history = <<>> /\ ret = None

\* translate_srt is entered: the debug preamble of lines 361-399
translate_srt_begin ==
    /\ pc = "idle"
    /\ \E method \in Methods, target_lang \in TargetLangs, video_path \in VideoPaths,
          de_readability_optimization \in BOOLEAN :
         args' = [method |-> method, target_lang |-> target_lang,
                  video_path |-> video_path,
                  de_readability_optimization |-> de_readability_optimization]
    /\ log' = log \o <<LogRec("step", "Starting translate_srt", "-", "-"),
                       LogRec("debug", "Availability flags", "-", "-")>>
    /\ pc' = "dispatch"
    /\ UNCHANGED <<avail, self, os_environ, order, idx, last_err, calls, whisper_steps,
                   result, de, given>>
    /\ UNCHANGED smart_vars

\* lines 402-405: the fallback order is resolved and the loop starts
AutoResolveOrder ==
    /\ pc = "dispatch" /\ args.method = S_auto
    /\ \E e1 \in OrderOverridesCall :
       \E e2 \in (IF Truthy(e1) THEN {None} ELSE SecondOverridesCall) :
         /\ os_environ' = [os_environ EXCEPT !["SRT_FALLBACK_ORDER"] = e1,
                                             !["SMART_SRT_FALLBACK_ORDER"] = e2]
         /\ order' = _get_auto_fallback_order(e1, e2)
    /\ idx' = 1
    /\ last_err' = None
    /\ log' = Append(log, LogRec("debug", "Auto mode fallback order", "-", "-"))
    /\ pc' = "auto_loop"
    /\ UNCHANGED <<avail, self, args, calls, whisper_steps, result, de, given>>
    /\ UNCHANGED smart_vars

\* the except clause of the loop (lines 535-538), after the records `pre`
AutoRaised(pre, e) ==
    /\ last_err' = auto_record_error(last_err, e)
    /\ log' = log \o pre \o <<LogRec("error", "AUTO fallback failed", ProviderOf(order[idx]), e)>>
    /\ idx' = idx + 1
    /\ UNCHANGED <<pc, result>>

\* a `return` inside the loop
AutoReturned(pre, provider) ==
    /\ log' = log \o pre
    /\ result' = Path(provider)
    /\ pc' = "done"
    /\ UNCHANGED <<idx, last_err>>

\* the provider is constructed without looking at OPENAI_PROVIDER_AVAILABLE
provider_error_unchecked(av, has_openai_v1, has_openai_legacy, api_key) ==
    OpenAITranslator_init(has_openai_v1, has_openai_legacy, api_key)

\* the exception raised before the pipeline is called, if any (lines 418-420, 557-560)
provider_error(av, has_openai_v1, has_openai_legacy, api_key) ==
    IF ~av.OPENAI_PROVIDER_AVAILABLE THEN Some(E_PROVIDER_NA)
    ELSE OpenAITranslator_init(has_openai_v1, has_openai_legacy, api_key)

DeModeRecs(a) ==
    IF is_de(a.target_lang) /\ a.de_readability_optimization
    THEN <<LogRec("debug", "German EXPANSION mode (experimental)", "openai", "-")>>
    ELSE IF is_de(a.target_lang)
    THEN <<LogRec("debug", "German PRESERVE TIMING mode (default)", "openai", "-")>>
    ELSE <<>>

SuccessRecs == <<LogRec("step", "OpenAI Translation SUCCESS", "openai", "-"),
                 LogRec("debug", "Output SRT analysis", "openai", "-")>>

\* the environment of a call that finds the five preset overrides `env`
EnvWithDe(env) == [n \in ENV_NAMES |-> IF n \in DE_ENV_NAMES THEN env[n] ELSE os_environ[n]]

\* one loop iteration with m == "openai" (lines 408-518)
AutoOpenAI ==
    /\ pc = "auto_loop" /\ idx <= Len(order)
    /\ auto_branch(order[idx], avail, self, args) = "openai"
    /\ \E has_openai_v1 \in BOOLEAN, has_openai_legacy \in BOOLEAN, api_key \in ApiKeys :
         LET ctor == provider_error(avail, has_openai_v1, has_openai_legacy, api_key)
             attempt == LogRec("step", "Attempting OpenAI Translation", "openai", "-")
         IN IF ~IsNone(ctor)
            THEN /\ AutoRaised(<<attempt>>, ctor[1])
                 /\ UNCHANGED <<calls, os_environ, de>>
            ELSE \E env \in DeEnvsCall, ok \in BOOLEAN :
                   LET d == _get_de_preset(env)
                       kw == smart_kwargs_auto(args.target_lang,
                                               args.de_readability_optimization, d)
                       pre == <<attempt, LogRec("debug", "Initialized OpenAI provider",
                                                "openai", "-")>> \o DeModeRecs(args)
                   IN /\ calls' = Append(calls, Call("smart_translate_srt", "openai", kw))
                      /\ os_environ' = EnvWithDe(env)
                      /\ de' = IF is_de(args.target_lang) THEN Some(d) ELSE de
                      /\ IF ok THEN AutoReturned(pre \o SuccessRecs, "openai")
                               ELSE AutoRaised(pre, E_SMART)
    /\ UNCHANGED <<avail, self, args, order, whisper_steps, given>>
    /\ UNCHANGED smart_vars

\* one loop iteration with m == "google" (lines 519-524)
AutoGoogle ==
    /\ pc = "auto_loop" /\ idx <= Len(order)
    /\ auto_branch(order[idx], avail, self, args) = "google"
    /\ \E outcomes \in [1..Len(translator_parse_srt(fs.input_path[1])) -> CallOutcomes],
          io \in FileOutcomes :
         LET attempt == LogRec("step", "Attempting Google translators backend", "google", "-")
             r == _translate_srt_google(fs.input_path[1], SOURCE_LANG, args.target_lang,
                                        outcomes, io)
         IN /\ calls' = Append(calls, Call("_translate_srt_google", "google",
                                           [target_lang |-> args.target_lang]))
            /\ history' = history \o r.backend
            /\ translated_full' = r.translated_segments
            /\ fs' = [fs EXCEPT !.output_path = r.written]
            /\ IF IsNone(r.err) THEN AutoReturned(<<attempt>>, "google")
                                ELSE AutoRaised(<<attempt>>, r.err[1])
    /\ UNCHANGED <<avail, self, args, os_environ, order, whisper_steps, de, given>>
    /\ UNCHANGED <<blocks, max_chars, cache, ret>>

\* one loop iteration with m == "whisper" (lines 525-534)
AutoWhisper ==
    /\ pc = "auto_loop" /\ idx <= Len(order)
    /\ auto_branch(order[idx], avail, self, args) = "whisper"
    /\ \E fails_at \in WhisperFailures :
         LET attempt == LogRec("step", "Attempting Whisper translate (to English)",
                               "whisper", "-")
             ctor == IF self.whisper_translator = "None"
                     THEN WhisperTranslator_init(avail.WHISPER_AVAILABLE) ELSE None
             r == translate_via_whisper(S_en, fails_at)
         IN IF ~IsNone(ctor)
            THEN /\ AutoRaised(<<attempt>>, ctor[1])
                 /\ UNCHANGED <<self, calls, whisper_steps>>
            ELSE /\ self' = [self EXCEPT !.whisper_translator = "WhisperTranslator"]
                 /\ calls' = Append(calls, Call("translate_via_whisper", "whisper",
                                                [target_lang |-> S_en]))
                 /\ whisper_steps' = whisper_steps \o r.steps
                 /\ IF IsNone(r.err) THEN AutoReturned(<<attempt>>, "whisper")
                                     ELSE AutoRaised(<<attempt>>, r.err[1])
    /\ UNCHANGED <<avail, args, os_environ, order, de, given>>
    /\ UNCHANGED smart_vars

\* one loop iteration in which no branch's condition holds: nothing runs
AutoSkip ==
    /\ pc = "auto_loop" /\ idx <= Len(order)
    /\ auto_branch(order[idx], avail, self, args) = "skip"
    /\ idx' = idx + 1
    /\ UNCHANGED <<avail, self, args, os_environ, pc, order, last_err, log, calls,
                   whisper_steps, result, de, given>>
    /\ UNCHANGED smart_vars

\* the loop is over without a return (lines 539-541)
AutoExhausted ==
    /\ pc = "auto_loop" /\ idx > Len(order)
    /\ result' = Raise(auto_exhausted(last_err))
    /\ pc' = "done"
    /\ UNCHANGED <<avail, self, args, os_environ, order, idx, last_err, log, calls,
                   whisper_steps, de, given>>
    /\ UNCHANGED smart_vars

GoogleCall == Call("_translate_srt_google", "google", [target_lang |-> args.target_lang])
WhisperCall == Call("translate_via_whisper", "whisper", [target_lang |-> S_en])

\* the except clause of the explicit openai branch (lines 660-685) for the
\* exception e, after the records `pre` and with the invocations `cs` made
ExplicitOpenAIFailed(pre, cs, e) ==
    LET h == openai_except(args, avail, self)
        failed == LogRec("error", "OpenAI Translation FAILED", "openai", e)
    IN /\ log' = log \o pre \o <<failed>> \o
                 (IF h = "google"
                  THEN <<LogRec("step", "FALLBACK: Using Google translators backend",
                                "google", "-")>>
                  ELSE IF h = "whisper"
                  THEN <<LogRec("step", "FALLBACK: Using Whisper translate (to English)",
                                "whisper", "-")>>
                  ELSE <<>>)
       /\ calls' = cs \o (IF h = "google" THEN <<GoogleCall>>
                          ELSE IF h = "whisper" THEN <<WhisperCall>> ELSE <<>>)
       /\ whisper_steps' = IF h = "whisper"
                           THEN whisper_steps \o translate_via_whisper(S_en, "none").steps
                           ELSE whisper_steps
       /\ result' = IF h = "raise" THEN Raise(e) ELSE Path(h)

\* method == "openai" with the package available (lines 544-685)
ExplicitOpenAI ==
    /\ pc = "dispatch" /\ args.method # S_auto
    /\ explicit_branch(args, avail, self) = "openai"
    /\ \E has_openai_v1 \in BOOLEAN, has_openai_legacy \in BOOLEAN, api_key \in ApiKeys :
         LET ctor == provider_error(avail, has_openai_v1, has_openai_legacy, api_key)
             attempt == LogRec("step", "Attempting OpenAI Translation", "openai", "-")
         IN IF ~IsNone(ctor)
            THEN /\ ExplicitOpenAIFailed(<<attempt>>, calls, ctor[1])
                 /\ UNCHANGED <<os_environ, de>>
            ELSE \E env \in DeEnvsCall, ok \in BOOLEAN :
                   LET d == _get_de_preset(env)
                       kw == smart_kwargs_openai(args.target_lang,
                                                 args.de_readability_optimization, d)
                       pre == <<attempt, LogRec("debug", "Initialized OpenAI provider",
                                                "openai", "-")>> \o DeModeRecs(args)
                       cs == Append(calls, Call("smart_translate_srt", "openai", kw))
                   IN /\ os_environ' = EnvWithDe(env)
                      /\ de' = IF is_de(args.target_lang) THEN Some(d) ELSE de
                      /\ IF ok
                         THEN /\ log' = log \o pre \o SuccessRecs
                              /\ calls' = cs
                              /\ result' = Path("openai")
                              /\ UNCHANGED whisper_steps
                         ELSE ExplicitOpenAIFailed(pre, cs, E_SMART)
    /\ pc' = "done"
    /\ UNCHANGED <<avail, self, args, order, idx, last_err, given>>
    /\ UNCHANGED smart_vars

\* method == "whisper" with whisper and a video path (lines 687-695)
ExplicitWhisper ==
    /\ pc = "dispatch" /\ args.method # S_auto
    /\ explicit_branch(args, avail, self) = "whisper"
    /\ \E fails_at \in WhisperFailures :
         LET ctor == IF self.whisper_translator = "None"
                     THEN WhisperTranslator_init(avail.WHISPER_AVAILABLE) ELSE None
             r == translate_via_whisper(S_en, fails_at)
         IN IF whisper_rejects(args.target_lang)
            THEN /\ result' = Raise(E_WHISPER_LANG)
                 /\ UNCHANGED <<self, calls, whisper_steps>>
            ELSE IF ~IsNone(ctor)
            THEN /\ result' = Raise(ctor[1])
                 /\ UNCHANGED <<self, calls, whisper_steps>>
            ELSE /\ self' = [self EXCEPT !.whisper_translator = "WhisperTranslator"]
                 /\ calls' = Append(calls, WhisperCall)
                 /\ whisper_steps' = whisper_steps \o r.steps
                 /\ result' = IF IsNone(r.err) THEN Path("whisper") ELSE Raise(r.err[1])
    /\ pc' = "done"
    /\ UNCHANGED <<avail, args, os_environ, order, idx, last_err, log, de, given>>
    /\ UNCHANGED smart_vars

\* method == "google" with the translators package (lines 697-699)
ExplicitGoogle ==
    /\ pc = "dispatch" /\ args.method # S_auto
    /\ explicit_branch(args, avail, self) = "google"
    /\ \E outcomes \in [1..Len(translator_parse_srt(fs.input_path[1])) -> CallOutcomes],
          io \in FileOutcomes :
         LET r == _translate_srt_google(fs.input_path[1], SOURCE_LANG, args.target_lang,
                                        outcomes, io)
         IN /\ calls' = Append(calls, GoogleCall)
            /\ history' = history \o r.backend
            /\ translated_full' = r.translated_segments
            /\ fs' = [fs EXCEPT !.output_path = r.written]
            /\ result' = IF IsNone(r.err) THEN Path("google") ELSE Raise(r.err[1])
    /\ pc' = "done"
    /\ UNCHANGED <<avail, self, args, os_environ, order, idx, last_err, log,
                   whisper_steps, de, given>>
    /\ UNCHANGED <<blocks, max_chars, cache, ret>>

\* the final else (lines 701-702)
ExplicitUnavailable ==
    /\ pc = "dispatch" /\ args.method # S_auto
    /\ explicit_branch(args, avail, self) = "unavailable"
    /\ result' = Raise(E_METHOD_NA)
    /\ pc' = "done"
    /\ UNCHANGED <<avail, self, args, os_environ, order, idx, last_err, log, calls,
                   whisper_steps, de, given>>
    /\ UNCHANGED smart_vars

Next ==
    \/ translate_srt_begin
    \/ AutoResolveOrder
    \/ AutoOpenAI
    \/ AutoGoogle
    \/ AutoWhisper
    \/ AutoSkip
    \/ AutoExhausted
    \/ ExplicitOpenAI
    \/ ExplicitWhisper
    \/ ExplicitGoogle
    \/ ExplicitUnavailable

Spec == Init /\ [][Next]_vars

-----------------------------------------------------------------------------
(* _get_auto_fallback_order on its own                                     *)

S_OpenAI_padded == <<" ","O","p","e","n","A","I"," ">>
S_GOOGLE        == <<"G","O","O","G","L","E">>
S_whisper_padded == <<"w","h","i","s","p","e","r"," ">>
S_blank         == <<" ">>

\* the tokens an override is written with
Spellings == {S_openai, S_OpenAI_padded, S_google, S_GOOGLE, S_whisper_padded,
              S_deepl, S_blank, <<>>}

GivenOverrides(n) == {None} \cup {Some(q) : q \in SeqsUpTo(Spellings, n)}

\* the value of the environment variable written with the tokens g
RawOf(g) == IF IsNone(g) THEN None ELSE Some(str_join(g[1], ","))

InitOrder ==
    /\ avail = [SMART_TRANSLATION_AVAILABLE |-> FALSE, OPENAI_PROVIDER_AVAILABLE |-> FALSE,
                TRANSLATORS_AVAILABLE |-> FALSE, WHISPER_AVAILABLE |-> FALSE]
    /\ self = [has_translators |-> FALSE, has_whisper |-> FALSE,
               whisper_translator |-> "None"]
    /\ args = NoArgs
    /\ given \in [first : GivenOverrides(MaxTokens), second : GivenOverrides(1)]
    /\ os_environ = [EnvUnread EXCEPT !["SRT_FALLBACK_ORDER"] = RawOf(given.first),
                                      !["SMART_SRT_FALLBACK_ORDER"] = RawOf(given.second)]
    /\ pc = "order_in"
    /\ order = <<>>
    /\ idx = 0
    /\ last_err = None
    /\ log = <<>>
    /\ calls = <<>>
    /\ whisper_steps = <<>>
    /\ result = NoResult
    /\ de = None
    /\ SmartIdle

\* a call of _get_auto_fallback_order()
ResolveOrder ==
    /\ pc = "order_in"
    /\ order' = _get_auto_fallback_order(os_environ["SRT_FALLBACK_ORDER"],
                                         os_environ["SMART_SRT_FALLBACK_ORDER"])
    /\ pc' = "order_out"
    /\ UNCHANGED <<avail, self, args, os_environ, idx, last_err, log, calls,
                   whisper_steps, result, de, given>>
    /\ UNCHANGED smart_vars

NextOrder == ResolveOrder

SpecOrder == InitOrder /\ [][NextOrder]_vars

-----------------------------------------------------------------------------
(* _get_de_preset on its own                                               *)

\* the values an override of the preset is written with
PresetOverrides == {None, Some(V_150), Some(V_80), Some(V_1_5), Some(V_180),
                    Some(V_abc), Some(V_empty)}

InitPreset ==
    /\ avail = [SMART_TRANSLATION_AVAILABLE |-> FALSE, OPENAI_PROVIDER_AVAILABLE |-> FALSE,
                TRANSLATORS_AVAILABLE |-> FALSE, WHISPER_AVAILABLE |-> FALSE]
    /\ self = [has_translators |-> FALSE, has_whisper |-> FALSE,
               whisper_translator |-> "None"]
    /\ args = NoArgs
    /\ given = NoGiven
    /\ \E e \in [DE_ENV_NAMES -> PresetOverrides] :
         os_environ = [n \in ENV_NAMES |-> IF n \in DE_ENV_NAMES THEN e[n] ELSE None]
    /\ pc = "preset_in"
    /\ order = <<>>
    /\ idx = 0
    /\ last_err = None
    /\ log = <<>>
    /\ calls = <<>>
    /\ whisper_steps = <<>>
    /\ result = NoResult
    /\ de = None
    /\ SmartIdle

\* a call of _get_de_preset()
ResolvePreset ==
    /\ pc = "preset_in"
    /\ de' = Some(_get_de_preset(DeEnvOf(os_environ)))
    /\ pc' = "preset_out"
    /\ UNCHANGED <<avail, self, args, os_environ, order, idx, last_err, log, calls,
                   whisper_steps, result, given>>
    /\ UNCHANGED smart_vars

NextPreset == ResolvePreset

SpecPreset == InitPreset /\ [][NextPreset]_vars

-----------------------------------------------------------------------------
(* Properties of translate_srt                                             *)

Providers(cs) == [i \in DOMAIN cs |-> cs[i].provider]
\* a record announcing that a provider is being attempted
IsAttempt(r) ==
    r.level = "step" /\ r.msg \in {"Attempting OpenAI Translation",
                                    "Attempting Google translators backend",
                                    "Attempting Whisper translate (to English)",
                                    "FALLBACK: Using Google translators backend",
                                    "FALLBACK: Using Whisper translate (to English)"}
Attempts == SelectSeq(log, IsAttempt)
AutoErrors == SelectSeq(log, LAMBDA r : r.level = "error" /\ r.msg = "AUTO fallback failed")
ErrorRecs == SelectSeq(log, LAMBDA r : r.level = "error")
Ms(recs) == [i \in DOMAIN recs |-> recs[i].m]
Done == pc = "done"
InAuto == args.method = S_auto /\ pc \in {"auto_loop", "done"}

Precondition(m) ==
    IF m = S_openai THEN avail.SMART_TRANSLATION_AVAILABLE
    ELSE IF m = S_google THEN avail.TRANSLATORS_AVAILABLE
    ELSE /\ m = S_whisper
         /\ avail.WHISPER_AVAILABLE /\ Truthy(args.video_path) /\ args.target_lang = S_en

\* the candidates before the loop position whose precondition holds
EligibleBefore ==
    LET before == SubSeq(order, 1, idx - 1)
        el == SelectSeq(before, Precondition)
    IN [i \in DOMAIN el |-> ProviderOf(el[i])]

\* C2: in auto mode the candidates are attempted strictly in the resolved
\* order. The attempts so far are exactly the earlier entries whose
\* precondition holds (plus the entry that returned); every earlier attempt
\* raised and was recorded; a routine is invoked only for an attempted
\* candidate, in the same order; and a result exists only once a candidate
\* returned, it is that candidate's output, and the loop has stopped there.
C2_AutoOrder ==
    InAuto =>
        LET returned == result.kind = "path"
            attempted == IF returned
                         THEN Append(EligibleBefore, ProviderOf(order[idx]))
                         ELSE EligibleBefore
        IN /\ Ms(Attempts) = attempted
           /\ Ms(AutoErrors) = EligibleBefore
           /\ SelectSeq(attempted, LAMBDA q : \E i \in DOMAIN calls : calls[i].provider = q)
                = Providers(calls)
           /\ returned => /\ Done
                          /\ idx <= Len(order) /\ Precondition(order[idx])
                          /\ result.by = ProviderOf(order[idx])
                          /\ calls[Len(calls)].provider = result.by
           /\ (~returned /\ Done) => idx = Len(order) + 1

\* the first candidate was skipped, the second raised, the third returned
C2_Witness ==
    /\ InAuto /\ Done /\ Len(order) = 3 /\ idx = 3
    /\ ~Precondition(order[1]) /\ Precondition(order[2])
    /\ Len(AutoErrors) = 1
    /\ result = Path(ProviderOf(order[3]))
    /\ Len(calls) = 2

\* C3: an auto-mode call that exhausts the order ends in failure, and when
\* any candidate raised, the error surfaced is the one recorded last
\* (otherwise it is the error saying that no method was available).
C3_AutoSurfacesLastError ==
    (InAuto /\ Done /\ result.kind # "path") =>
        /\ result.kind = "error"
        /\ idx = Len(order) + 1
        /\ result.err = IF Len(AutoErrors) > 0 THEN AutoErrors[Len(AutoErrors)].exc
                        ELSE E_AUTO_NONE

\* two candidates raised different errors and the second is surfaced
C3_Witness ==
    /\ InAuto /\ Done /\ result.kind = "error"
    /\ Len(AutoErrors) = 2
    /\ AutoErrors[1].exc # AutoErrors[2].exc
    /\ result.err = AutoErrors[2].exc

\* order [google, whisper, openai] with only openai available
C4_Scenario ==
    /\ InAuto
    /\ order = <<S_google, S_whisper, S_openai>>
    /\ ~Precondition(S_google) /\ ~Precondition(S_whisper)
    /\ avail.SMART_TRANSLATION_AVAILABLE /\ avail.OPENAI_PROVIDER_AVAILABLE

PassedOverRecs == SelectSeq(log, LAMBDA r : r.m \in {"google", "whisper"})

ConfigErrorRecs == SelectSeq(log, LAMBDA r : r.level = "error" /\ r.exc \in ConfigErrors)

\* C5 as stated: in every mode a configuration error ends the call with
\* that error, and no provider is attempted after it.
C5_Original ==
    \A i \in DOMAIN log :
        (log[i].level = "error" /\ log[i].exc \in ConfigErrors) =>
            /\ \A j \in DOMAIN log : j > i => ~IsAttempt(log[j])
            /\ Done => result = Raise(log[i].exc)

\* C5 as amended: for an explicit request a configuration error is fatal
\* (a missing provider dependency is detected, the call ends with the
\* error, nothing is invoked); in auto mode the error is recorded as the
\* candidate's failure and only surfaces when the order is exhausted with
\* no later error.
C5_ConfigErrorFatalWhenExplicit ==
    /\ (args.method = S_openai /\ Done /\ avail.SMART_TRANSLATION_AVAILABLE
          /\ ~avail.OPENAI_PROVIDER_AVAILABLE) => result = Raise(E_PROVIDER_NA)
    /\ (args.method # S_auto /\ Len(ConfigErrorRecs) > 0) =>
          /\ Done
          /\ Len(ConfigErrorRecs) = 1
          /\ log[Len(log)] = ConfigErrorRecs[1]
          /\ result = Raise(ConfigErrorRecs[1].exc)
          /\ calls = <<>>
    /\ (InAuto /\ Done /\ result.kind = "error" /\ result.err \in ConfigErrors) =>
          /\ idx = Len(order) + 1
          /\ AutoErrors[Len(AutoErrors)].exc = result.err

\* an explicit openai request without a credential, google being available
C5_Witness ==
    /\ args.method = S_openai /\ Done /\ result = Raise(E_NO_KEY)
    /\ avail.TRANSLATORS_AVAILABLE

ExpectedCallPreset ==
    [ wrap_width |-> IF os_environ["SRT_DE_WRAP"] = Some(V_80) THEN 100 ELSE 120,
      expansion_factor |-> IF os_environ["SRT_DE_EXPANSION_FACTOR"] = Some(V_1_5)
                           THEN 150 ELSE 135,
      min_seg_dur |-> 220, reading_wpm |-> 200, min_gap_ms |-> 120 ]

SmartCalls == SelectSeq(calls, LAMBDA c : c.routine = "smart_translate_srt")

C10_StrictTimingExpected ==
    (/\ args.method = S_openai /\ args.target_lang = S_de
     /\ args.de_readability_optimization /\ Done /\ result.kind = "path") =>
        /\ Len(SmartCalls) = 1
        /\ LET kw == SmartCalls[1].kwargs
           IN /\ "preserve_timing" \in DOMAIN kw /\ kw.preserve_timing = TRUE
              /\ "expand_timing" \in DOMAIN kw => kw.expand_timing = FALSE
              /\ kw.balance = FALSE /\ kw.smooth = FALSE
              /\ kw.wrap_width >= 100

-----------------------------------------------------------------------------
(* Properties of _get_auto_fallback_order and _get_de_preset               *)

\* the method a token stands for once trimmed and lower-cased (None: a
\* token outside the known set)
Canon(token) ==
    IF token \in {S_openai, S_OpenAI_padded} THEN Some(S_openai)
    ELSE IF token \in {S_google, S_GOOGLE} THEN Some(S_google)
    ELSE IF token \in {S_whisper, S_whisper_padded} THEN Some(S_whisper)
    ELSE None

\* an override is set when the variable holds a non-empty value
IsSet(raw) == ~IsNone(raw) /\ raw[1] # <<>>

\* the tokens of the first set override, or of the default order
ChosenTokens ==
    IF IsSet(os_environ["SRT_FALLBACK_ORDER"]) THEN given.first[1]
    ELSE IF IsSet(os_environ["SMART_SRT_FALLBACK_ORDER"]) THEN given.second[1]
    ELSE <<S_openai, S_google, S_whisper>>

ExpectedOrder ==
    LET known == SelectSeq(ChosenTokens, LAMBDA t : ~IsNone(Canon(t)))
    IN [i \in DOMAIN known |-> Canon(known[i])[1]]

\* C7: _get_auto_fallback_order returns the tokens of the first set
\* override among SRT_FALLBACK_ORDER and SMART_SRT_FALLBACK_ORDER, trimmed
\* and lower-cased, without the tokens outside {openai, google, whisper}
\* and in their original relative order; without an override it returns
\* [openai, google, whisper]; the result is a sequence over the known set.
C7_FallbackOrderResolved ==
    pc = "order_out" =>
        /\ order = ExpectedOrder
        /\ \A i \in DOMAIN order : order[i] \in {S_openai, S_google, S_whisper}

\* " OpenAI ,deepl,GOOGLE" resolves to [openai, google]
C7_Witness ==
    /\ pc = "order_out"
    /\ given.first = Some(<<S_OpenAI_padded, S_deepl, S_GOOGLE>>)
    /\ order = <<S_openai, S_google>>

\* what an override value means as an int and as a float in hundredths
\* (None: not a number of that type)
IntMeaning(v) ==
    IF v = V_150 THEN Some(150)
    ELSE IF v = V_80 THEN Some(80)
    ELSE IF v = V_180 THEN Some(180)
    ELSE None

FloatMeaning(v) ==
    IF v = V_150 THEN Some(15000)
    ELSE IF v = V_80 THEN Some(8000)
    ELSE IF v = V_180 THEN Some(18000)
    ELSE IF v = V_1_5 THEN Some(150)
    ELSE None

\* the override's value when it is set and means a number, else the default
Resolved(name, Meaning(_), default) ==
    IF IsNone(os_environ[name]) \/ IsNone(Meaning(os_environ[name][1]))
    THEN default
    ELSE Meaning(os_environ[name][1])[1]

FourFieldsResolved ==
    /\ de[1].expansion_factor = Resolved("SRT_DE_EXPANSION_FACTOR", FloatMeaning, 135)
    /\ de[1].min_seg_dur = Resolved("SRT_DE_MIN_SEG_DUR", FloatMeaning, 220)
    /\ de[1].reading_wpm = Resolved("SRT_DE_READING_WPM", IntMeaning, 200)
    /\ de[1].min_gap_ms = Resolved("SRT_DE_MIN_GAP_MS", IntMeaning, 120)

\* C8 as stated: each of the five fields equals its override when the
\* override parses as a number of the field's type, else its default
\* (120, 1.35, 2.2, 200, 120).
C8_Original ==
    pc = "preset_out" =>
        /\ de[1].wrap_width = Resolved("SRT_DE_WRAP", IntMeaning, 120)
        /\ FourFieldsResolved

\* C8 as amended: the same, except that wrap_width is the larger of 100
\* and the value so resolved.
C8_PresetFieldsIndependent ==
    pc = "preset_out" =>
        /\ de[1].wrap_width = Max(100, Resolved("SRT_DE_WRAP", IntMeaning, 120))
        /\ FourFieldsResolved

\* a wrap override below the floor, an invalid expansion factor and a valid
\* reading speed side by side
C8_Witness ==
    /\ pc = "preset_out"
    /\ os_environ["SRT_DE_WRAP"] = Some(V_80)
    /\ os_environ["SRT_DE_EXPANSION_FACTOR"] = Some(V_abc)
    /\ os_environ["SRT_DE_READING_WPM"] = Some(V_180)
    /\ de[1] = [wrap_width |-> 100, expansion_factor |-> 135, min_seg_dur |-> 220,
                reading_wpm |-> 180, min_gap_ms |-> 120]

-----------------------------------------------------------------------------
(* smart_translation.py: cues, whitespace and sentence groups              *)

\* the translator at rest, while a function of smart_translation.py runs
TransIdleButArgs ==
    /\ avail = [SMART_TRANSLATION_AVAILABLE |-> FALSE, OPENAI_PROVIDER_AVAILABLE |-> FALSE,
                TRANSLATORS_AVAILABLE |-> FALSE, WHISPER_AVAILABLE |-> FALSE]
    /\ self = [has_translators |-> FALSE, has_whisper |-> FALSE,
               whisper_translator |-> "None"]
    /\ os_environ = EnvUnread
    /\ order = <<>>
    /\ idx = 0
    /\ last_err = None
    /\ log = <<>>
    /\ calls = <<>>
    /\ whisper_steps = <<>>
    /\ result = NoResult
    /\ de = None
    /\ given = NoGiven

TransIdle == TransIdleButArgs /\ args = NoArgs

\* the dataclass SRTBlock
SRTBlock(index, start, end, text) ==
    [index |-> index, start |-> start, end |-> end, text |-> text]

\* the no-break space, as one character
NBSP == "nbsp"

\* text.replace(NBSP, " ")
replace_nbsp(text) == [i \in 1..Len(text) |-> IF text[i] = NBSP THEN " " ELSE text[i]]

\* re.sub(r"\s+", " ", text)
RECURSIVE collapse_ws(_)
collapse_ws(text) ==
    IF Len(text) = 0 THEN <<>>
    ELSE IF is_space(text[1]) THEN <<" ">> \o collapse_ws(str_lstrip(text))
    ELSE LET n == CHOOSE k \in 1..Len(text) :
                      /\ \A j \in 1..k : ~is_space(text[j])
                      /\ k = Len(text) \/ is_space(text[k + 1])
         IN SubSeq(text, 1, n) \o collapse_ws(SubSeq(text, n + 1, Len(text)))

_normalize_whitespace(text) == str_strip(collapse_ws(replace_nbsp(text)))

\* the pattern [\.!?][\)\]\"]? matched so that it ends at position e
sentence_end_at(merged, e) ==
    /\ e >= 1
    /\ \/ merged[e] \in {".", "!", "?"}
       \/ e >= 2 /\ merged[e] \in {")", "]", "\""} /\ merged[e - 1] \in {".", "!", "?"}

\* re.search(r"[\.!?][\)\]\"]?$", merged): $ matches at the end of the
\* string and before a newline that ends it
sentence_end(merged) ==
    \/ sentence_end_at(merged, Len(merged))
    \/ Len(merged) >= 1 /\ merged[Len(merged)] = "\n"
                        /\ sentence_end_at(merged, Len(merged) - 1)

\* default of max_chars
MAX_CHARS_DEFAULT == 320

\* the for loop of _split_into_sentence_groups from its i-th block on
\* (i is 1-based; the indices stored in the groups are Python's)
RECURSIVE split_loop(_, _, _, _, _, _)
split_loop(bs, mc, i, cur_start, cur_text, groups) ==
    IF i > Len(bs)
    THEN [groups |-> groups, cur_start |-> cur_start, cur_text |-> cur_text]
    ELSE LET ct == Append(cur_text, bs[i].text)
             merged == str_join(ct, " ")
         IN IF sentence_end(merged) \/ Len(merged) >= mc
            THEN split_loop(bs, mc, i + 1, i, <<>>,
                            Append(groups, <<cur_start, i - 1, _normalize_whitespace(merged)>>))
            ELSE split_loop(bs, mc, i + 1, cur_start, ct, groups)

\* _split_into_sentence_groups without the group of the trailing fragment
_split_into_sentence_groups_no_tail(bs, mc) ==
    split_loop(bs, mc, 1, 0, <<>>, <<>>).groups

_split_into_sentence_groups(bs, mc) ==
    LET st == split_loop(bs, mc, 1, 0, <<>>, <<>>)
    IN IF Len(st.cur_text) > 0
       THEN Append(st.groups, <<st.cur_start, Len(bs) - 1,
                                _normalize_whitespace(str_join(st.cur_text, " "))>>)
       ELSE st.groups

\* the cue texts the grouper is given: empty, a fragment, a sentence, a
\* sentence closed by a bracket, three characters, a sentence and a newline
GroupTexts == { <<>>, <<"a">>, <<"a",".">>, <<"a","?",")">>, <<"a"," ","b">>,
                <<"a","!","\n">> }

\* the cues with the texts q, numbered from 1, one second each
BlocksOf(q) == [i \in 1..Len(q) |-> SRTBlock(i, TimeOf(i - 1), TimeOf(i), q[i])]

TextsOf(bs) == [i \in 1..Len(bs) |-> bs[i].text]

InitGroups ==
    /\ TransIdle
    /\ pc = "groups_in"
    /\ blocks \in {BlocksOf(q) : q \in SeqsUpTo(GroupTexts, MaxBlocks)}
    /\ max_chars \in {3, MAX_CHARS_DEFAULT}
    /\ translated_full = <<>>
    /\ fs = <<>> /\ cache = None /\ history = <<>>
    /\ ret = None

\* a call of _split_into_sentence_groups(blocks, max_chars)
SplitGroups ==
    /\ pc = "groups_in"
    /\ ret' = Some(_split_into_sentence_groups(blocks, max_chars))
    /\ pc' = "groups_out"
    /\ UNCHANGED <<trans_vars_but_pc, blocks, max_chars, translated_full, fs, cache, history>>

NextGroups == SplitGroups

SpecGroups == InitGroups /\ [][NextGroups]_vars

\* C12: the groups _split_into_sentence_groups returns are inclusive
\* ranges start <= end in increasing order that cover 0 .. len(cues)-1
\* without gap or overlap: the first starts at 0, each next one starts one
\* past the end of the one before, the last ends at len(cues)-1; for no
\* cues there is no group.
C12_GroupsPartitionCues ==
    pc = "groups_out" =>
        LET g == ret[1]
            n == Len(blocks)
        IN /\ n = 0 => g = <<>>
           /\ n > 0 => Len(g) >= 1 /\ g[1][1] = 0 /\ g[Len(g)][2] = n - 1
           /\ \A k \in DOMAIN g :
                /\ g[k][1] <= g[k][2]
                /\ k > 1 => g[k][1] = g[k - 1][2] + 1

\* a group closed by the length ceiling, a two-cue group closed by
\* punctuation and a trailing unterminated fragment
C12_Witness ==
    /\ pc = "groups_out" /\ max_chars = 3
    /\ TextsOf(blocks) = << <<"a"," ","b">>, <<>>, <<"a",".">>, <<"a">> >>
    /\ Len(ret[1]) = 3
    /\ ret[1][2][1] = 1 /\ ret[1][2][2] = 2
    /\ ret[1][3][1] = 3 /\ ret[1][3][2] = 3

-----------------------------------------------------------------------------
(* smart_translation.py: wrapping to two lines                             *)

\* default of _wrap_two_lines' width
WRAP_WIDTH_DEFAULT == 42

\* str.split(): the maximal runs of non-whitespace characters
RECURSIVE str_words(_)
str_words(s) ==
    LET t == str_lstrip(s)
    IN IF Len(t) = 0 THEN <<>>
       ELSE LET n == CHOOSE k \in 1..Len(t) :
                         /\ \A j \in 1..k : ~is_space(t[j])
                         /\ k = Len(t) \/ is_space(t[k + 1])
            IN <<SubSeq(t, 1, n)>> \o str_words(SubSeq(t, n + 1, Len(t)))

\* TextWrapper._munge_whitespace: every whitespace character becomes a space
munge_whitespace(text) == [i \in 1..Len(text) |-> IF is_space(text[i]) THEN " " ELSE text[i]]

\* TextWrapper._split for a text without hyphens or dashes: the maximal
\* runs of spaces and of other characters, in order
RECURSIVE wrap_split(_)
wrap_split(text) ==
    IF Len(text) = 0 THEN <<>>
    ELSE LET sp == (text[1] = " ")
             n == CHOOSE k \in 1..Len(text) :
                      /\ \A j \in 1..k : (text[j] = " ") = sp
                      /\ k = Len(text) \/ (text[k + 1] = " ") # sp
         IN <<SubSeq(text, 1, n)>> \o wrap_split(SubSeq(text, n + 1, Len(text)))

is_blank(chunk) == \A j \in 1..Len(chunk) : chunk[j] = " "

\* the inner loop of TextWrapper._wrap_chunks: chunks are taken while they fit
RECURSIVE wrap_take(_, _, _, _)
wrap_take(chunks, width, cur_line, cur_len) ==
    IF Len(chunks) > 0 /\ cur_len + Len(chunks[1]) <= width
    THEN wrap_take(Tail(chunks), width, Append(cur_line, chunks[1]), cur_len + Len(chunks[1]))
    ELSE [cur_line |-> cur_line, cur_len |-> cur_len, chunks |-> chunks]

\* TextWrapper._handle_long_word with break_long_words: the chunk that is
\* wider than a line is cut at the space left on the current line
handle_long_word(st, width) ==
    LET space_left == IF width < 1 THEN 1 ELSE width - st.cur_len
        chunk == st.chunks[1]
    IN [cur_line |-> Append(st.cur_line, SubSeq(chunk, 1, space_left)),
        cur_len |-> st.cur_len + space_left,
        chunks |-> <<SubSeq(chunk, space_left + 1, Len(chunk))>> \o Tail(st.chunks)]

RECURSIVE concat(_)
concat(parts) == IF Len(parts) = 0 THEN <<>> ELSE parts[1] \o concat(Tail(parts))

\* the outer loop of TextWrapper._wrap_chunks (drop_whitespace)
RECURSIVE wrap_chunks(_, _, _)
wrap_chunks(chunks, width, lines) ==
    IF Len(chunks) = 0 THEN lines
    ELSE LET cs == IF is_blank(chunks[1]) /\ Len(lines) > 0 THEN Tail(chunks) ELSE chunks
             taken == wrap_take(cs, width, <<>>, 0)
             st == IF Len(taken.chunks) > 0 /\ Len(taken.chunks[1]) > width
                   THEN handle_long_word(taken, width) ELSE taken
             n == Len(st.cur_line)
             cur_line == IF n > 0 /\ is_blank(st.cur_line[n])
                         THEN SubSeq(st.cur_line, 1, n - 1) ELSE st.cur_line
         IN wrap_chunks(st.chunks, width,
                        IF Len(cur_line) > 0 THEN Append(lines, concat(cur_line)) ELSE lines)

\* textwrap.wrap(text, width=width)
textwrap_wrap(text, width) == wrap_chunks(wrap_split(munge_whitespace(text)), width, <<>>)

\* the wrapped lines joined as they are, however many
_wrap_all_lines(text, width) == join_str(textwrap_wrap(text, width), <<"\n">>)

_wrap_two_lines(text, width) ==
    LET lines == textwrap_wrap(text, width)
    IN IF Len(lines) <= 2 THEN join_str(lines, <<"\n">>)
       ELSE lines[1] \o <<"\n">> \o join_str(Tail(lines), <<" ">>)

-----------------------------------------------------------------------------
(* smart_translation.py: _distribute_translation_over_blocks               *)

RECURSIVE SumSeq(_)
SumSeq(q) == IF Len(q) = 0 THEN 0 ELSE q[1] + SumSeq(Tail(q))

\* round(p / q) for p >= 0 and q > 0: halves go to the even neighbour
py_round(p, q) ==
    LET f == p \div q
        r2 == 2 * (p % q)
    IN IF r2 < q THEN f
       ELSE IF r2 > q THEN f + 1
       ELSE IF f % 2 = 0 THEN f ELSE f + 1

\* sum(len(b.text) for b in blocks), without the `or 1`
src_total_unguarded(bs) == SumSeq([i \in 1..Len(bs) |-> Len(bs[i].text)])

\* src_total (line 253)
src_total(bs) ==
    IF SumSeq([i \in 1..Len(bs) |-> Len(bs[i].text)]) = 0 THEN 1
    ELSE SumSeq([i \in 1..Len(bs) |-> Len(bs[i].text)])

\* the targets before the residual is corrected (line 259)
initial_targets(bs, tgt_total, total) ==
    [i \in 1..Len(bs) |-> Max(1, py_round(tgt_total * Len(bs[i].text), total))]

\* the targets left as they were rounded
adjust_targets_skipped(targets, diff, i) == targets

\* the while loop of lines 262-267, from its i-th iteration on
RECURSIVE adjust_targets(_, _, _)
adjust_targets(targets, diff, i) ==
    IF diff = 0 \/ Len(targets) = 0 THEN targets
    ELSE LET step == IF diff > 0 THEN 1 ELSE -1
         IN adjust_targets([targets EXCEPT ![(i % Len(targets)) + 1] = @ + step],
                           diff - step, i + 1)

\* the inner while loop with the joining space left out of the test
RECURSIVE fill_words_no_space(_, _, _, _, _)
fill_words_no_space(words, widx, cur, cur_len, cur_target) ==
    IF widx < Len(words) /\ cur_len + Len(words[widx + 1]) <= cur_target
    THEN fill_words_no_space(words, widx + 1, Append(cur, words[widx + 1]),
                             cur_len + Len(words[widx + 1]) + (IF cur_len > 0 THEN 1 ELSE 0),
                             cur_target)
    ELSE [cur |-> cur, widx |-> widx]

\* the inner while loop of lines 277-281 (widx is Python's index)
RECURSIVE fill_words(_, _, _, _, _)
fill_words(words, widx, cur, cur_len, cur_target) ==
    IF /\ widx < Len(words)
       /\ cur_len + Len(words[widx + 1]) + (IF Len(cur) > 0 THEN 1 ELSE 0) <= cur_target
    THEN fill_words(words, widx + 1, Append(cur, words[widx + 1]),
                    cur_len + Len(words[widx + 1]) + (IF cur_len > 0 THEN 1 ELSE 0),
                    cur_target)
    ELSE [cur |-> cur, widx |-> widx]

\* the for loop of lines 274-283 from block bi on: the output cues, the
\* words each cue was assigned and the index of the first word not placed
RECURSIVE fill_blocks(_, _, _, _, _, _, _)
fill_blocks(bs, targets, words, bi, widx, out_blocks, assigned) ==
    IF bi > Len(bs)
    THEN [out_blocks |-> out_blocks, assigned |-> assigned, widx |-> widx]
    ELSE LET f == fill_words(words, widx, <<>>, 0, targets[bi])
             text == str_strip(str_join(f.cur, " "))
             b == bs[bi]
         IN fill_blocks(bs, targets, words, bi + 1, f.widx,
                        Append(out_blocks,
                               SRTBlock(b.index, b.start, b.end,
                                        _wrap_two_lines(text, WRAP_WIDTH_DEFAULT))),
                        Append(assigned, f.cur))

\* the words that were not placed are left out
append_rest_dropped(out_blocks, words, widx) == out_blocks

\* lines 286-290: the words not placed go to the last block
append_rest(out_blocks, words, widx) ==
    IF widx < Len(words) /\ Len(out_blocks) > 0
    THEN LET last == out_blocks[Len(out_blocks)]
             extra == str_strip(last.text \o <<" ">> \o
                                str_join(SubSeq(words, widx + 1, Len(words)), " "))
         IN [out_blocks EXCEPT ![Len(out_blocks)] =
                SRTBlock(last.index, last.start, last.end,
                         _wrap_two_lines(extra, WRAP_WIDTH_DEFAULT))]
    ELSE out_blocks

\* the run of _distribute_translation_over_blocks: its locals and what it
\* returns or raises
distribute(bs, translated_full_in, total) ==
    LET normalized == _normalize_whitespace(translated_full_in)
        words == str_words(normalized)
        tgt_total == Len(normalized)
    IN IF total = 0 /\ Len(bs) > 0
       THEN [raised |-> Some("ZeroDivisionError"), targets |-> <<>>, words |-> words,
             tgt_total |-> tgt_total, assigned |-> <<>>, widx |-> 0, out_blocks |-> <<>>]
       ELSE LET t0 == initial_targets(bs, tgt_total, total)
                targets == adjust_targets(t0, tgt_total - SumSeq(t0), 0)
                f == fill_blocks(bs, targets, words, 1, 0, <<>>, <<>>)
            IN [raised |-> None, targets |-> targets, words |-> words,
                tgt_total |-> tgt_total, assigned |-> f.assigned, widx |-> f.widx,
                out_blocks |-> append_rest(f.out_blocks, words, f.widx)]

_distribute_translation_over_blocks(bs, translated_full_in) ==
    distribute(bs, translated_full_in, src_total(bs))

\* a word of n letters
LongWord(n) == [i \in 1..n |-> "x"]

\* the cue texts the reconciler is given: 0, 1, 2 and 4 characters
CueTexts == { <<>>, <<"a">>, <<"a","b">>, <<"a","b","c","d">> }

\* the translated texts: empty, one word, two words, a word too long for
\* small budgets, untidy whitespace, many short words, a word longer than
\* a display line alone and after a short word, a word longer than two
\* display lines, two words of a full line each before two short ones
Translations ==
    { <<>>, <<"a">>, <<"a","b"," ","c","d">>, <<"a","b","c","d"," ","e">>,
      <<" ","a"," "," ","b","\n">>, <<"a"," ","b"," ","c"," ","d"," ","e">>,
      LongWord(WRAP_WIDTH_DEFAULT + 1),
      <<"a","b"," ">> \o LongWord(WRAP_WIDTH_DEFAULT + 1),
      LongWord(2 * WRAP_WIDTH_DEFAULT + 1),
      LongWord(WRAP_WIDTH_DEFAULT) \o <<" ">> \o LongWord(WRAP_WIDTH_DEFAULT)
          \o <<" ","a"," ","b">> }

InitDistribute ==
    /\ TransIdle
    /\ pc = "distribute_in"
    /\ blocks \in {BlocksOf(q) : q \in SeqsUpTo(CueTexts, MaxBlocks)}
    /\ max_chars = 0
    /\ translated_full \in Translations
    /\ fs = <<>> /\ cache = None /\ history = <<>>
    /\ ret = None

\* a call of _distribute_translation_over_blocks(blocks, translated_full)
Distribute ==
    /\ pc = "distribute_in"
    /\ ret' = Some(_distribute_translation_over_blocks(blocks, translated_full))
    /\ pc' = "distribute_out"
    /\ UNCHANGED <<trans_vars_but_pc, blocks, max_chars, translated_full, fs, cache, history>>

NextDistribute == Distribute

SpecDistribute == InitDistribute /\ [][NextDistribute]_vars

\* C13: in preserve-timing mode the reconciler returns, without raising,
\* one output cue per input cue in the same order, each with the index,
\* start and end of the input cue at its position.
C13_OneCuePerCueTimingKept ==
    pc = "distribute_out" =>
        /\ ret[1].raised = None
        /\ Len(ret[1].out_blocks) = Len(blocks)
        /\ \A i \in DOMAIN blocks :
             /\ ret[1].out_blocks[i].index = blocks[i].index
             /\ ret[1].out_blocks[i].start = blocks[i].start
             /\ ret[1].out_blocks[i].end = blocks[i].end

\* three cues, one of them without text, and a translation of one word:
\* two cues get the empty text
C13_Witness ==
    /\ pc = "distribute_out"
    /\ TextsOf(blocks) = << <<"a","b">>, <<>>, <<"a">> >>
    /\ translated_full = <<"a">>
    /\ ret[1].raised = None
    /\ Cardinality({i \in 1..3 : ret[1].out_blocks[i].text = <<>>}) = 2
    /\ \A i \in 1..3 : ret[1].out_blocks[i].start = TimeOf(i - 1)

\* C14: for a non-empty cue list, after the residual correction the sum of
\* the per-cue target character counts equals the length of the normalized
\* translated text.
C14_TargetsSumToLength ==
    (pc = "distribute_out" /\ Len(blocks) > 0) =>
        SumSeq(ret[1].targets) = Len(_normalize_whitespace(translated_full))

\* a translation of one character over three cues: the rounded targets
\* 1, 1, 1 are corrected by -2
C14_Witness ==
    /\ pc = "distribute_out"
    /\ TextsOf(blocks) = << <<"a","b">>, <<>>, <<"a">> >>
    /\ translated_full = <<"a">>
    /\ initial_targets(blocks, 1, 3) = <<1, 1, 1>>
    /\ ret[1].targets = <<0, 0, 1>>

\* the words of the output cues' texts, read in cue order
OutputWords ==
    concat([i \in 1..Len(ret[1].out_blocks) |-> str_words(ret[1].out_blocks[i].text)])

\* C15 as stated: for a non-empty cue list the reconciler never drops,
\* duplicates or reorders a word: the words of the output cues' texts, read
\* in cue order, are exactly the words of the normalized translated text.
C15_Original ==
    (pc = "distribute_out" /\ Len(blocks) > 0) =>
        OutputWords = str_words(_normalize_whitespace(translated_full))

\* the characters of a text that are not whitespace
NonSpace(text) == SelectSeq(text, LAMBDA c : ~is_space(c))

\* C15 as amended: for a non-empty cue list the output cues' texts, read in
\* cue order without their whitespace, are exactly the characters of the
\* translated text without its whitespace; and when no word is longer than
\* a display line, the words of the output are exactly the words of the
\* normalized translated text.
C15_CharactersPreserved ==
    (pc = "distribute_out" /\ Len(blocks) > 0) =>
        LET words == str_words(_normalize_whitespace(translated_full))
        IN /\ concat([i \in 1..Len(ret[1].out_blocks) |->
                         NonSpace(ret[1].out_blocks[i].text)])
                = NonSpace(translated_full)
           /\ (\A k \in DOMAIN words : Len(words[k]) <= WRAP_WIDTH_DEFAULT) =>
                 OutputWords = words

\* two cues with a budget of three characters each and the translation
\* "abcd e": no word fits, both words end up in the last cue
C15_Witness ==
    /\ pc = "distribute_out"
    /\ TextsOf(blocks) = << <<"a">>, <<"a">> >>
    /\ translated_full = <<"a","b","c","d"," ","e">>
    /\ ret[1].widx = 0
    /\ ret[1].out_blocks[1].text = <<>>
    /\ ret[1].out_blocks[2].text = <<"a","b","c","d"," ","e">>

\* the length of words joined by single spaces
JoinLen(words) == Len(str_join(words, " "))

\* the words a cue holds in the end: the last cue also holds the words
\* left over after the fill
FinalAssigned(i) ==
    IF i = Len(blocks)
    THEN ret[1].assigned[i] \o SubSeq(ret[1].words, ret[1].widx + 1, Len(ret[1].words))
    ELSE ret[1].assigned[i]

\* C16 as stated: for every output cue, the last one included, the length
\* of its assigned text (word lengths plus one joining space between
\* consecutive words) is at most the cue's target character count plus the
\* wrap slack, the one line break that wrapping adds.
C16_Original ==
    pc = "distribute_out" =>
        \A i \in DOMAIN blocks : JoinLen(FinalAssigned(i)) <= ret[1].targets[i] + 1

\* C16 as amended: the words the fill assigns to a cue are at most the
\* cue's target character count long; they are the words of the cue's
\* output text for every cue but the last, and for the last one when no
\* word is left over (no word being longer than a display line). The words
\* left over go to the last cue whatever its target.
C16_FillWithinBudget ==
    pc = "distribute_out" =>
        \A i \in DOMAIN blocks :
            /\ JoinLen(ret[1].assigned[i]) <= ret[1].targets[i]
            /\ (/\ i < Len(blocks) \/ ret[1].widx = Len(ret[1].words)
                /\ \A k \in DOMAIN ret[1].words :
                      Len(ret[1].words[k]) <= WRAP_WIDTH_DEFAULT)
               => str_words(ret[1].out_blocks[i].text) = ret[1].assigned[i]
            /\ str_words(ret[1].out_blocks[i].text) = ret[1].assigned[i]
               \/ NonSpace(ret[1].out_blocks[i].text) = concat(FinalAssigned(i))

\* cues of one and two characters and the translation "abcd e": the last
\* cue's budget of 4 takes "abcd", and "e" is appended beyond it
C16_Witness ==
    /\ pc = "distribute_out"
    /\ TextsOf(blocks) = << <<"a">>, <<"a","b">> >>
    /\ translated_full = <<"a","b","c","d"," ","e">>
    /\ ret[1].targets = <<2, 4>>
    /\ ret[1].assigned = << <<>>, << <<"a","b","c","d">> >> >>
    /\ ret[1].widx = 1
    /\ ret[1].out_blocks[2].text = <<"a","b","c","d"," ","e">>


\* the words that end up in the i-th cue: those the fill loop gave it and,
\* for the last cue, the words left over
CueWords(r, i) ==
    r.assigned[i] \o (IF i = Len(r.out_blocks)
                      THEN SubSeq(r.words, r.widx + 1, Len(r.words)) ELSE <<>>)

LineBreaks(text) == Len(SelectSeq(text, LAMBDA c : c = "\n"))

\* C27: every cue text the reconciler returns has at most two display
\* lines: with the cue's words wrapped at the width of 42, it is the wrapped
\* lines, none longer than the width, when they are at most two, and else
\* the first wrapped line followed by the other lines joined with single
\* spaces as the second line
C27_AtMostTwoLines ==
    (pc = "distribute_out" /\ IsNone(ret[1].raised)) =>
        \A i \in 1..Len(ret[1].out_blocks) :
            LET text == ret[1].out_blocks[i].text
                lines == textwrap_wrap(join_str(CueWords(ret[1], i), <<" ">>),
                                       WRAP_WIDTH_DEFAULT)
            IN /\ LineBreaks(text) <= 1
               /\ \A k \in 1..Len(lines) : Len(lines[k]) <= WRAP_WIDTH_DEFAULT
               /\ IF Len(lines) <= 2
                  THEN text = join_str(lines, <<"\n">>)
                  ELSE text = lines[1] \o <<"\n">> \o join_str(Tail(lines), <<" ">>)

\* the words of the last cue wrap to three lines (two words of a full line
\* each and the two short ones left over): the second and the third line
\* were joined and the second display line is longer than the width
C27_Witness ==
    /\ pc = "distribute_out" /\ IsNone(ret[1].raised)
    /\ Len(ret[1].out_blocks) = 2
    /\ ret[1].widx < Len(ret[1].words)
    /\ Len(textwrap_wrap(join_str(CueWords(ret[1], 2), <<" ">>), WRAP_WIDTH_DEFAULT)) = 3
    /\ LineBreaks(ret[1].out_blocks[2].text) = 1
    /\ Len(ret[1].out_blocks[2].text) = 2 * WRAP_WIDTH_DEFAULT + 5

-----------------------------------------------------------------------------
(* smart_translation.py: write_srt and parse_srt                           *)

\* what write_srt writes for the cues from the i-th on, with `ending` after
\* each text
RECURSIVE srt_text(_, _, _)
srt_text(bs, i, ending) ==
    IF i > Len(bs) THEN <<>>
    ELSE int_str(bs[i].index) \o <<"\n">> \o bs[i].start \o <<" ","-","-",">"," ">>
         \o bs[i].end \o <<"\n">> \o bs[i].text \o ending \o srt_text(bs, i + 1, ending)

\* write_srt with one newline after each text
write_srt_one_newline(bs) == srt_text(bs, 1, <<"\n">>)

\* the text write_srt writes to the file
write_srt(bs) == srt_text(bs, 1, <<"\n","\n">>)

\* \d{2}:\d{2}:\d{2},\d{3} matches raw from position t
timestamp_at(raw, t) ==
    /\ t + 11 <= Len(raw)
    /\ \A k \in {0, 1, 3, 4, 6, 7, 9, 10, 11} : is_digit(raw[t + k])
    /\ raw[t + 2] = ":" /\ raw[t + 5] = ":" /\ raw[t + 8] = ","

\* the length of the run of digits from position s on (\d+ is greedy)
RECURSIVE digit_run(_, _)
digit_run(raw, s) ==
    IF s <= Len(raw) /\ is_digit(raw[s]) THEN 1 + digit_run(raw, s + 1) ELSE 0

\* the length of the run of whitespace from position s on
RECURSIVE space_run(_, _)
space_run(raw, s) ==
    IF s <= Len(raw) /\ is_space(raw[s]) THEN 1 + space_run(raw, s + 1) ELSE 0

\* a text group that runs to the end of the string
text_stop_at_end(raw, p) == Len(raw) + 1

\* the position where the lazy [\s\S]*? stops: the first one from p on that
\* is followed by "\n\n" or is the end of the string
RECURSIVE text_stop(_, _)
text_stop(raw, p) ==
    IF p > Len(raw) THEN p
    ELSE IF p < Len(raw) /\ raw[p] = "\n" /\ raw[p + 1] = "\n" THEN p
    ELSE text_stop(raw, p + 1)

\* the match of parse_srt's pattern that starts at position s, if any:
\* the groups and the position after the match
match_at(raw, s) ==
    LET d == digit_run(raw, s)
        w == space_run(raw, s + d)
        t == s + d + w
    IN IF /\ d >= 1 /\ w >= 1 /\ raw[t - 1] = "\n"
          /\ timestamp_at(raw, t)
          /\ t + 29 <= Len(raw)
          /\ is_space(raw[t + 12])
          /\ SubSeq(raw, t + 13, t + 15) = <<"-","-",">">>
          /\ is_space(raw[t + 16])
          /\ timestamp_at(raw, t + 17)
          /\ raw[t + 29] = "\n"
       THEN LET p == text_stop(raw, t + 30)
            IN Some([idx |-> digits_value(SubSeq(raw, s, s + d - 1)),
                     start |-> SubSeq(raw, t, t + 11),
                     end |-> SubSeq(raw, t + 17, t + 28),
                     text |-> SubSeq(raw, t + 30, p - 1),
                     after |-> p])
       ELSE None

\* m.group(4).replace("\n", " ")
replace_newlines(text) == [i \in 1..Len(text) |-> IF text[i] = "\n" THEN " " ELSE text[i]]

\* the loop over re.finditer(pattern, raw) from position pos on
RECURSIVE parse_from(_, _, _)
parse_from(raw, pos, entries) ==
    IF \A s \in pos..Len(raw) : IsNone(match_at(raw, s)) THEN entries
    ELSE LET s == CHOOSE k \in pos..Len(raw) :
                      /\ ~IsNone(match_at(raw, k))
                      /\ \A j \in pos..(k - 1) : IsNone(match_at(raw, j))
             m == match_at(raw, s)[1]
             text == _normalize_whitespace(replace_newlines(m.text))
         IN parse_from(raw, m.after,
                       IF Len(text) > 0
                       THEN Append(entries, SRTBlock(m.idx, m.start, m.end, text))
                       ELSE entries)

\* parse_srt for the content raw of the file
parse_srt(raw) == parse_from(raw, 1, <<>>)

\* the cue texts written: empty, a word, two words, two lines, a leading
\* space, a leading line break, a blank line inside
RoundTripTexts == { <<>>, <<"a">>, <<"a"," ","b">>, <<"a","\n","b">>, <<" ","a">>,
                    <<"\n","a">>, <<"a","\n","\n","b">> }

\* the cues with the texts q, numbered from `first` on
BlocksFrom(q, first) ==
    [i \in 1..Len(q) |-> SRTBlock(first + i - 1, TimeOf(i - 1), TimeOf(i), q[i])]

InitRoundTrip ==
    /\ TransIdle
    /\ pc = "write_srt"
    /\ blocks \in {BlocksFrom(q, first) : q \in SeqsUpTo(RoundTripTexts, MaxCues),
                                         first \in {1, 9}}
    /\ max_chars = 0 /\ translated_full = <<>>
    /\ fs = [out_path |-> None]
    /\ cache = None /\ history = <<>>
    /\ ret = None

\* write_srt(out_path, blocks)
WriteSrt ==
    /\ pc = "write_srt"
    /\ fs' = [fs EXCEPT !.out_path = Some(write_srt(blocks))]
    /\ pc' = "parse_srt"
    /\ UNCHANGED <<trans_vars_but_pc, blocks, max_chars, translated_full, cache, history, ret>>

\* parse_srt(out_path)
ParseSrt ==
    /\ pc = "parse_srt"
    /\ ret' = Some(parse_srt(fs.out_path[1]))
    /\ pc' = "parsed"
    /\ UNCHANGED <<trans_vars_but_pc, blocks, max_chars, translated_full, fs, cache, history>>

NextRoundTrip == WriteSrt \/ ParseSrt

SpecRoundTrip == InitRoundTrip /\ [][NextRoundTrip]_vars

\* the text has a blank line inside
has_blank_line(text) ==
    \E i \in 1..(Len(text) - 1) : text[i] = "\n" /\ text[i + 1] = "\n"

\* the cues of bs from the i-th on whose normalized text is not empty, with
\* the text normalized
RECURSIVE normalized_cues(_, _)
normalized_cues(bs, i) ==
    IF i > Len(bs) THEN <<>>
    ELSE LET text == _normalize_whitespace(replace_newlines(bs[i].text))
         IN (IF Len(text) > 0
             THEN <<SRTBlock(bs[i].index, bs[i].start, bs[i].end, text)>>
             ELSE <<>>) \o normalized_cues(bs, i + 1)

\* C17 as stated: whenever no text of the written cues has a blank line
\* inside, parsing the written file gives back the cues themselves.
C17_Original ==
    (pc = "parsed" /\ \A i \in 1..Len(blocks) : ~has_blank_line(blocks[i].text))
        => ret[1] = blocks

\* C17: whenever no text of the written cues has a blank line inside, parsing
\* the written file gives the cues whose whitespace-normalized text is not
\* empty, in order, with index, start and end kept and the text normalized;
\* so it gives back the cues themselves when every text is not empty and
\* already normalized.
C17_RoundTripNormalized ==
    (pc = "parsed" /\ \A i \in 1..Len(blocks) : ~has_blank_line(blocks[i].text))
        => /\ ret[1] = normalized_cues(blocks, 1)
           /\ (\A i \in 1..Len(blocks) :
                   /\ Len(blocks[i].text) > 0
                   /\ _normalize_whitespace(blocks[i].text) = blocks[i].text)
               => ret[1] = blocks

\* two cues numbered 9 and 10 with tidy texts came back unchanged, and a
\* two-line text came back on one line
C17_Witness ==
    /\ pc = "parsed"
    /\ Len(blocks) = 2
    /\ blocks[1].index = 9
    /\ \/ /\ blocks[1].text = <<"a">> /\ blocks[2].text = <<"a"," ","b">>
          /\ ret[1] = blocks
       \/ /\ blocks[1].text = <<"a","\n","b">> /\ blocks[2].text = <<"a">>
          /\ Len(ret[1]) = 2 /\ ret[1][1].text = <<"a"," ","b">>

-----------------------------------------------------------------------------
(* smart_translation.py: JsonCache and translate_srt.translate_text        *)
(* A dict is the sequence of its items in insertion order.  A file is      *)
(* absent (None) or has a content: the items written so far and whether    *)
(* the closing brace of the JSON object has been written.                  *)

Item(k, v) == [k |-> k, v |-> v]

\* d.get(k)
dict_get(d, k) ==
    IF \E i \in 1..Len(d) : d[i].k = k
    THEN Some(d[CHOOSE i \in 1..Len(d) : d[i].k = k].v)
    ELSE None

\* d[k] = v
dict_set(d, k, v) ==
    IF \E i \in 1..Len(d) : d[i].k = k
    THEN [i \in 1..Len(d) |-> IF d[i].k = k THEN Item(k, v) ELSE d[i]]
    ELSE Append(d, Item(k, v))

FileContent(items, closed) == [items |-> items, closed |-> closed]

\* json.load of the file at path, as JsonCache.__init__ uses it: {} when the
\* file does not exist or is not a complete JSON document
json_load(files, path) ==
    IF IsNone(files[path]) THEN <<>>
    ELSE IF files[path][1].closed THEN files[path][1].items
    ELSE <<>>

CACHE_PATH == <<"smart_translation_cache.json">>

\* JsonCache.set writing the new snapshot over the cache file itself
tmp_path_in_place(path) == path

\* self.path + ".tmp"
tmp_path(path) == Append(path, ".tmp")

\* the character "\0" that separates the hashed fields
NUL == "NUL"

\* the string hashed by _cache_key; the digest is taken to be one-to-one
_cache_key(provider, model, src, tgt, text) ==
    provider \o <<NUL>> \o model \o <<NUL>> \o src \o <<NUL>> \o tgt \o <<NUL>> \o text

GPT_35_TURBO == <<"gpt-3.5-turbo">>
GPT_4 == <<"gpt-4">>

\* model or os.environ.get("OPENAI_MODEL", "gpt-3.5-turbo")
resolve_model(model, env_model) ==
    IF Truthy(model) THEN model[1]
    ELSE IF ~IsNone(env_model) THEN env_model[1]
    ELSE GPT_35_TURBO

\* OpenAITranslator.translate_one for the reply content of the provider
\* (replies are free of quotes and punctuation)
translate_one(content) == str_strip(IF Truthy(content) THEN content[1] ELSE <<>>)

\* one translate_text call as observed: its key, whether the cache held the
\* key, whether the provider was called, what it returned, and the dict
\* before and after
Request(key, held, call, out, before, after) ==
    [key |-> key, held |-> held, call |-> call, out |-> out,
     before |-> before, after |-> after]

CacheTexts == { <<"H","i">>, <<"O","k">> }
CacheModels == { None, Some(GPT_4) }
CacheEnvModels == { None, Some(GPT_4) }
\* the provider's reply content: none, blank, a word
Replies == { None, Some(<<" ">>), Some(<<"x">>) }

InitCache ==
    /\ TransIdle
    /\ pc = "JsonCache"
    /\ blocks = <<>> /\ max_chars = 0 /\ translated_full = <<>>
    /\ \E old \in {None,
                   Some(FileContent(<<Item(_cache_key(S_openai, GPT_35_TURBO, S_en, S_de,
                                                      <<"H","i">>), <<"x">>)>>, TRUE))} :
           fs = [p \in {CACHE_PATH, tmp_path(CACHE_PATH)} |->
                     IF p = CACHE_PATH THEN old ELSE None]
    /\ cache = None
    /\ history = <<>>
    /\ ret = None

\* cache = JsonCache(cache_path) at the start of a translate_srt call
JsonCache_init ==
    /\ pc = "JsonCache"
    /\ cache' = Some([path |-> CACHE_PATH, _data |-> json_load(fs, CACHE_PATH)])
    /\ pc' = "translate_text"
    /\ UNCHANGED <<trans_vars_but_pc, blocks, max_chars, translated_full, fs, history, ret>>

\* translate_text(t) answered from the cache
TranslateTextCached ==
    /\ pc = "translate_text"
    /\ Len(history) < MaxRequests
    /\ \E t \in CacheTexts, model \in CacheModels, env_model \in CacheEnvModels :
         LET mdl == resolve_model(model, env_model)
             key == _cache_key(S_openai, mdl, S_en, S_de, t)
             cached == dict_get(cache[1]._data, key)
         IN /\ Truthy(cached)
            /\ ret' = Some(cached[1])
            /\ history' = Append(history, Request(key, TRUE, FALSE, cached,
                                                  cache[1]._data, cache[1]._data))
    /\ UNCHANGED <<trans_vars, blocks, max_chars, translated_full, fs, cache>>

\* translate_text(t) calling the provider, up to self._data[key] = value in
\* cache.set
TranslateTextProvider ==
    /\ pc = "translate_text"
    /\ Len(history) < MaxRequests
    /\ \E t \in CacheTexts, model \in CacheModels, env_model \in CacheEnvModels,
          content \in Replies :
         LET mdl == resolve_model(model, env_model)
             key == _cache_key(S_openai, mdl, S_en, S_de, t)
             cached == dict_get(cache[1]._data, key)
             out == translate_one(content)
             data == dict_set(cache[1]._data, key, out)
         IN /\ ~Truthy(cached)
            /\ cache' = Some([cache[1] EXCEPT !._data = data])
            /\ history' = Append(history, Request(key, ~IsNone(cached), TRUE, Some(out),
                                                  cache[1]._data, data))
    /\ ret' = None
    /\ pc' = "set_open"
    /\ UNCHANGED <<trans_vars_but_pc, blocks, max_chars, translated_full, fs>>

\* translate_text(t) when OpenAITranslator or the provider raises: the
\* error ends the translate_srt call
TranslateTextRaises ==
    /\ pc = "translate_text"
    /\ Len(history) < MaxRequests
    /\ \E t \in CacheTexts, model \in CacheModels, env_model \in CacheEnvModels :
         LET mdl == resolve_model(model, env_model)
             key == _cache_key(S_openai, mdl, S_en, S_de, t)
             cached == dict_get(cache[1]._data, key)
         IN /\ ~Truthy(cached)
            /\ history' = Append(history, Request(key, ~IsNone(cached), TRUE, None,
                                                  cache[1]._data, cache[1]._data))
    /\ cache' = None
    /\ ret' = None
    /\ pc' = "JsonCache"
    /\ UNCHANGED <<trans_vars_but_pc, blocks, max_chars, translated_full, fs>>

\* cache.set: open(tmp, "w") creates or empties the temporary file
SetOpenTmp ==
    /\ pc = "set_open"
    /\ fs' = [fs EXCEPT ![tmp_path(cache[1].path)] = Some(FileContent(<<>>, FALSE))]
    /\ pc' = "set_dump"
    /\ UNCHANGED <<trans_vars_but_pc, blocks, max_chars, translated_full, cache, history, ret>>

\* cache.set: json.dump writes the next item, or the closing brace after
\* the last one
SetDump ==
    /\ pc = "set_dump"
    /\ LET tmp == tmp_path(cache[1].path)
           written == fs[tmp][1].items
           data == cache[1]._data
       IN IF Len(written) < Len(data)
          THEN /\ fs' = [fs EXCEPT ![tmp] =
                            Some(FileContent(Append(written, data[Len(written) + 1]), FALSE))]
               /\ pc' = "set_dump"
          ELSE /\ fs' = [fs EXCEPT ![tmp] = Some(FileContent(written, TRUE))]
               /\ pc' = "set_replace"
    /\ UNCHANGED <<trans_vars_but_pc, blocks, max_chars, translated_full, cache, history, ret>>

\* cache.set: os.replace(tmp, self.path), then translate_text returns out
SetReplace ==
    /\ pc = "set_replace"
    /\ LET path == cache[1].path
           tmp == tmp_path(path)
       IN fs' = [p \in DOMAIN fs |-> IF p = path THEN fs[tmp]
                                     ELSE IF p = tmp THEN None
                                     ELSE fs[p]]
    /\ ret' = history[Len(history)].out
    /\ pc' = "translate_text"
    /\ UNCHANGED <<trans_vars_but_pc, blocks, max_chars, translated_full, cache, history>>

\* translate_srt returns: the cache object is gone, the files stay
TranslateSrtReturns ==
    /\ pc = "translate_text"
    /\ cache' = None
    /\ pc' = "JsonCache"
    /\ UNCHANGED <<trans_vars_but_pc, blocks, max_chars, translated_full, fs, history, ret>>

\* the process dies inside cache.set: memory is lost, the files stay as
\* they are
Crash ==
    /\ pc \in {"set_open", "set_dump", "set_replace"}
    /\ cache' = None
    /\ ret' = None
    /\ pc' = "JsonCache"
    /\ UNCHANGED <<trans_vars_but_pc, blocks, max_chars, translated_full, fs, history>>

NextCache ==
    \/ JsonCache_init
    \/ TranslateTextCached
    \/ TranslateTextProvider
    \/ TranslateTextRaises
    \/ SetOpenTmp
    \/ SetDump
    \/ SetReplace
    \/ TranslateSrtReturns
    \/ Crash

SpecCache == InitCache /\ [][NextCache]_vars

\* C18: whenever translate_text is asked for a key the cache already holds
\* (the provider returned a value for the same provider, model, languages and
\* text before and it was stored), the provider is not called again.
C18_SecondRequestFromCache ==
    \A i \in 1..Len(history) : history[i].held => ~history[i].call

\* C19: at every point, crashes inside JsonCache.set included, the file at
\* the cache path is absent or a complete JSON document; once a request has
\* been made its content is the dict before or the dict after the latest
\* request, and so is what a later JsonCache loads.
C19_CacheFileNeverPartial ==
    /\ IsNone(fs[CACHE_PATH]) \/ fs[CACHE_PATH][1].closed
    /\ history # <<>> =>
           /\ json_load(fs, CACHE_PATH) \in {history[Len(history)].before,
                                            history[Len(history)].after}
           /\ pc = "translate_text" =>
                  cache[1]._data \in {history[Len(history)].before,
                                      history[Len(history)].after}

\* a crash during json.dump left a partial temporary file, the cache file
\* still holds the earlier snapshot, and the next JsonCache loaded it
C19_Witness ==
    /\ pc = "translate_text"
    /\ Len(history) = 2
    /\ ~IsNone(fs[tmp_path(CACHE_PATH)])
    /\ ~fs[tmp_path(CACHE_PATH)][1].closed
    /\ Len(fs[tmp_path(CACHE_PATH)][1].items) = 1
    /\ ~IsNone(fs[CACHE_PATH])
    /\ Len(fs[CACHE_PATH][1].items) = 1
    /\ history[2].before = fs[CACHE_PATH][1].items
    /\ Len(history[2].after) = 2
    /\ cache # None
    /\ cache[1]._data = history[2].before

-----------------------------------------------------------------------------
(* subtitle_validator.py: parse_srt_segments and validate_translation      *)

\* the length of the match of \r?\n\r?\n at position i of s, 0 for none
blank_line_at(s, i) ==
    LET a == IF i <= Len(s) /\ s[i] = "\r" THEN 1 ELSE 0
        b == IF i + a + 1 <= Len(s) /\ s[i + a + 1] = "\r" THEN 1 ELSE 0
    IN IF /\ i + a <= Len(s) /\ s[i + a] = "\n"
          /\ i + a + 1 + b <= Len(s) /\ s[i + a + 1 + b] = "\n"
       THEN a + b + 2
       ELSE 0

\* re.split(r'\r?\n\r?\n', s)
RECURSIVE split_blank_lines(_)
split_blank_lines(s) ==
    IF \E i \in 1..Len(s) : blank_line_at(s, i) > 0
    THEN LET i == CHOOSE k \in 1..Len(s) :
                      /\ blank_line_at(s, k) > 0
                      /\ \A j \in 1..(k - 1) : blank_line_at(s, j) = 0
         IN <<SubSeq(s, 1, i - 1)>>
            \o split_blank_lines(SubSeq(s, i + blank_line_at(s, i), Len(s)))
    ELSE <<s>>

\* str.splitlines() for the line boundaries \n, \r\n and \r
RECURSIVE splitlines(_)
splitlines(s) ==
    IF Len(s) = 0 THEN <<>>
    ELSE IF \E i \in 1..Len(s) : s[i] \in {"\n", "\r"}
    THEN LET i == CHOOSE k \in 1..Len(s) :
                      /\ s[k] \in {"\n", "\r"}
                      /\ \A j \in 1..(k - 1) : s[j] \notin {"\n", "\r"}
             n == IF s[i] = "\r" /\ i < Len(s) /\ s[i + 1] = "\n" THEN 2 ELSE 1
         IN <<SubSeq(s, 1, i - 1)>> \o splitlines(SubSeq(s, i + n, Len(s)))
    ELSE <<s>>

\* the loop of parse_srt_segments over the blocks from the i-th on
RECURSIVE segments_of(_, _)
segments_of(bls, i) ==
    IF i > Len(bls) THEN <<>>
    ELSE LET block == str_strip(bls[i])
             lines == splitlines(block)
         IN (IF Len(block) = 0 THEN <<>>
             ELSE IF Len(lines) < 2 THEN <<>>
             ELSE IF IsNone(py_int(lines[1])) THEN <<>>
             ELSE <<Segment(py_int(lines[1])[1], lines[2],
                            str_strip(join_str(SubSeq(lines, 3, Len(lines)), <<"\n">>)))>>)
            \o segments_of(bls, i + 1)

\* parse_srt_segments for the content of the file
parse_srt_segments(content) ==
    segments_of(split_blank_lines(str_strip(content)), 1)

\* empty_threshold_pct = 2.0, in hundredths
EMPTY_THRESHOLD_PCT == 200

ValidationResult(is_valid, empty_count, total_count, empty_percentage, drift_start, drift_amount, details) ==
    [is_valid |-> is_valid, empty_count |-> empty_count, total_count |-> total_count,
     empty_percentage |-> empty_percentage, drift_start |-> drift_start,
     drift_amount |-> drift_amount, details |-> details]

\* the report: which of the four texts it is, the numbers it shows in order,
\* and the segment numbers it lists
Details(kind, shown, listed) == [kind |-> kind, shown |-> shown, listed |-> listed]

\* empty_indices_from counting every segment without translated text
RECURSIVE empty_indices_any_original(_, _, _)
empty_indices_any_original(orig, trans, i) ==
    IF i > Len(orig) THEN <<>>
    ELSE (IF Len(str_strip(trans[i].text)) = 0
          THEN <<orig[i].index>> ELSE <<>>) \o empty_indices_any_original(orig, trans, i + 1)

\* the index of every original segment from the i-th on that has text while
\* the translated segment at its position has none
RECURSIVE empty_indices_from(_, _, _)
empty_indices_from(orig, trans, i) ==
    IF i > Len(orig) THEN <<>>
    ELSE (IF Len(str_strip(orig[i].text)) > 0 /\ Len(str_strip(trans[i].text)) = 0
          THEN <<orig[i].index>> ELSE <<>>) \o empty_indices_from(orig, trans, i + 1)

\* max(seg['index'] for seg in orig_segments)
max_index_of(orig) ==
    CHOOSE m \in {orig[i].index : i \in 1..Len(orig)} :
        \A i \in 1..Len(orig) : orig[i].index <= m

\* is_valid that looks at the percentage only
is_valid_ignoring_drift(empty_count, total, drift_amount, threshold) ==
    empty_count * 10000 < threshold * total

\* empty_pct < empty_threshold_pct and drift_amount == 0, the percentage
\* being (empty_count / total) * 100 and the threshold in hundredths
is_valid_of(empty_count, total, drift_amount, threshold) ==
    empty_count * 10000 < threshold * total /\ drift_amount = 0

\* the result of validate_translation when both files have `total` > 0
\* segments
evaluate_segments(orig, trans, threshold) ==
    LET total == Len(orig)
        empty_indices == empty_indices_from(orig, trans, 1)
        empty_count == Len(empty_indices)
        \* (empty_count / total) * 100, in hundredths
        empty_pct == (empty_count * 10000) \div total
        max_index == max_index_of(orig)
        \* idx >= max_index * 0.75
        empty_in_last_quarter ==
            Cardinality({k \in 1..empty_count : 4 * empty_indices[k] >= 3 * max_index})
        \* empty_in_last_quarter >= empty_count * 0.5
        drifted == empty_count >= 3 /\ 2 * empty_in_last_quarter >= empty_count
        drift_amount == IF drifted THEN empty_in_last_quarter ELSE 0
        \* 0-based positions i with i > total * 0.5 whose translation is empty
        late == {i \in 1..total :
                     /\ Len(str_strip(orig[i].text)) > 0
                     /\ Len(str_strip(trans[i].text)) = 0
                     /\ 2 * (i - 1) > total}
        drift_start ==
            IF ~drifted THEN None
            ELSE IF late # {}
            THEN Some(orig[CHOOSE i \in late : \A j \in late : i <= j].index)
            ELSE Some(empty_indices[1])
        is_valid == is_valid_of(empty_count, total, drift_amount, threshold)
        details ==
            IF is_valid THEN Details("ok", <<total, empty_count, empty_pct>>, <<>>)
            ELSE Details(IF drift_amount > 0 THEN "drift" ELSE "empty",
                         <<total, empty_count, empty_pct>>
                             \o (IF drift_amount > 0
                                 THEN <<drift_amount>>
                                      \o (IF drift_start # None /\ drift_start[1] # 0
                                          THEN <<drift_start[1]>> ELSE <<>>)
                                      \o <<drift_amount>>
                                 ELSE <<empty_count>>),
                         IF empty_count <= 5 THEN empty_indices ELSE <<>>)
    IN ValidationResult(is_valid, empty_count, total, empty_pct, drift_start,
                        drift_amount, details)

\* validate_translation for the contents of the two files
validate_translation(original, translated, empty_threshold_pct) ==
    LET orig_segments == parse_srt_segments(original)
        trans_segments == parse_srt_segments(translated)
        total == Len(orig_segments)
    IN IF total = 0
       THEN ValidationResult(TRUE, 0, 0, 0, None, 0, Details("no_segments", <<>>, <<>>))
       ELSE IF Len(trans_segments) # total
       THEN ValidationResult(FALSE, 0, total, 0, None, 0,
                             Details("mismatch", <<total, Len(trans_segments)>>, <<>>))
       ELSE evaluate_segments(orig_segments, trans_segments, empty_threshold_pct)

SegmentTexts == { <<>>, <<"a">> }

\* the original file: numbered from 1, the same after a bad block, or
\* numbered from 7
OriginalKinds == { <<FALSE, 1>>, <<TRUE, 1>>, <<FALSE, 7>> }

\* the default threshold, one that two empty cues of four meet exactly, and
\* one that only a file of empty cues meets
Thresholds == {EMPTY_THRESHOLD_PCT, 5000, 10000}

\* the threshold is varied where it is read: for files of equal length
InitValidate ==
    /\ TransIdleButArgs
    /\ pc = "validate_translation"
    /\ blocks = <<>> /\ max_chars = 0 /\ translated_full = <<>>
    /\ \E kind \in OriginalKinds, qo \in SeqsUpTo(SegmentTexts, MaxSegments),
          qt \in SeqsUpTo(SegmentTexts, MaxSegments) :
           /\ fs = [original_path |-> SegmentFile(kind[1], kind[2], qo),
                    translated_path |-> SegmentFile(FALSE, 1, qt)]
           /\ args \in [empty_threshold_pct :
                            IF Len(qo) = Len(qt) THEN Thresholds ELSE {EMPTY_THRESHOLD_PCT}]
    /\ cache = None /\ history = <<>>
    /\ ret = None

\* validate_translation(original_path, translated_path, empty_threshold_pct)
ValidateTranslation ==
    /\ pc = "validate_translation"
    /\ ret' = Some(validate_translation(fs["original_path"], fs["translated_path"],
                                        args.empty_threshold_pct))
    /\ pc' = "validated"
    /\ UNCHANGED <<trans_vars_but_pc, blocks, max_chars, translated_full, fs, cache, history>>

NextValidate == ValidateTranslation

SpecValidate == InitValidate /\ [][NextValidate]_vars

\* C20: whenever the two files parse to different numbers of segments, the
\* result is the count-mismatch result: not valid, the details naming both
\* counts, and no empty or drift evaluation (empty_count 0, drift_amount 0,
\* drift_start unset).
C20_CountMismatchResult ==
    (/\ pc = "validated"
     /\ Len(parse_srt_segments(fs["original_path"]))
            # Len(parse_srt_segments(fs["translated_path"])))
        => /\ ret[1].is_valid = FALSE
           /\ ret[1].details = Details("mismatch",
                                       <<Len(parse_srt_segments(fs["original_path"])),
                                         Len(parse_srt_segments(fs["translated_path"]))>>,
                                       <<>>)
           /\ ret[1].empty_count = 0
           /\ ret[1].drift_amount = 0
           /\ ret[1].drift_start = None

\* the positions that count as empty: the original has text, the translation
\* has none
EmptyPositions(orig, trans) ==
    {i \in 1..Len(orig) : Len(orig[i].text) > 0 /\ Len(trans[i].text) = 0}

\* C21: for two files with the same number of segments, empty_count is the
\* number of positions whose original text is not empty and whose translated
\* text is empty, empty_percentage is 100 times that count over the total
\* (in hundredths, rounded down), and is_valid holds exactly when that
\* percentage is strictly below the threshold and drift_amount is 0.
C21_EmptyCountAndValidity ==
    pc = "validated" =>
        LET orig == parse_srt_segments(fs["original_path"])
            trans == parse_srt_segments(fs["translated_path"])
            total == Len(orig)
            count == Cardinality(EmptyPositions(orig, trans))
        IN (Len(trans) = total /\ total > 0)
               => /\ ret[1].total_count = total
                  /\ ret[1].empty_count = count
                  /\ ret[1].empty_percentage * total <= count * 10000
                  /\ count * 10000 < (ret[1].empty_percentage + 1) * total
                  /\ ret[1].is_valid <=> (/\ count * 10000 < args.empty_threshold_pct * total
                                          /\ ret[1].drift_amount = 0)

\* four segments both ways, one original without text whose translation is
\* empty too and is not counted, two counted ones, and a threshold of 50.0
\* that the 50.0 percent found does not stay below
C21_Witness ==
    /\ pc = "validated"
    /\ ret[1].total_count = 4
    /\ ret[1].empty_count = 2
    /\ ret[1].empty_percentage = 5000
    /\ args.empty_threshold_pct = 5000
    /\ ret[1].is_valid = FALSE
    /\ ret[1].drift_amount = 0
    /\ LET orig == parse_srt_segments(fs["original_path"])
           trans == parse_srt_segments(fs["translated_path"])
       IN /\ Len(orig) = 4 /\ Len(trans) = 4
          /\ \E i \in 1..4 : Len(orig[i].text) = 0 /\ Len(trans[i].text) = 0

\* C22 as stated: drift is flagged exactly when at least 3 cues are empty and
\* at least half of their indices are at or above 0.75 times the largest
\* original index; drift_amount is then the number of empty indices in that
\* region and drift_start the index of the first empty cue strictly past the
\* middle of the sequence, else of the first empty cue; otherwise
\* drift_amount is 0 and drift_start unset.
C22_DriftHeuristic ==
    pc = "validated" =>
        LET orig == parse_srt_segments(fs["original_path"])
            trans == parse_srt_segments(fs["translated_path"])
            total == Len(orig)
            empty == EmptyPositions(orig, trans)
            largest == CHOOSE m \in {orig[i].index : i \in 1..total} :
                           \A i \in 1..total : orig[i].index <= m
            region == {p \in empty : 4 * orig[p].index >= 3 * largest}
            flagged == /\ Cardinality(empty) >= 3
                       /\ 2 * Cardinality(region) >= Cardinality(empty)
            late == {p \in empty : 2 * p > total}
            first(S) == CHOOSE p \in S : \A r \in S : p <= r
        IN (Len(trans) = total /\ total > 0)
               => IF flagged
                  THEN /\ ret[1].drift_amount = Cardinality(region)
                       /\ ret[1].drift_amount >= 2
                       /\ ret[1].is_valid = FALSE
                       /\ ret[1].drift_start =
                              Some(orig[IF late # {} THEN first(late) ELSE first(empty)].index)
                  ELSE /\ ret[1].drift_amount = 0
                       /\ ret[1].drift_start = None

\* C29: in every result 0 <= drift_amount <= empty_count <= total_count,
\* drift_start is set exactly when drift_amount > 0, and a drift_amount above
\* 0 comes with at least 3 empty cues and is_valid False.
C29_ResultInvariants ==
    pc = "validated" =>
        /\ 0 <= ret[1].drift_amount
        /\ ret[1].drift_amount <= ret[1].empty_count
        /\ ret[1].empty_count <= ret[1].total_count
        /\ ret[1].drift_start # None <=> ret[1].drift_amount > 0
        /\ ret[1].drift_amount > 0 => (ret[1].empty_count >= 3 /\ ret[1].is_valid = FALSE)

\* a flagged drift under the threshold of 100.0, which the 75.0 percent of
\* empty cues alone would pass
C29_Witness ==
    /\ pc = "validated"
    /\ args.empty_threshold_pct = 10000
    /\ ret[1].total_count = 4
    /\ ret[1].empty_count = 3
    /\ ret[1].drift_amount = 2
    /\ ret[1].drift_start # None
    /\ ret[1].is_valid = FALSE

-----------------------------------------------------------------------------
(* translator.py: WhisperTranslator._map_whisper_to_original_timing        *)
(* Times are whole seconds.                                                *)

\* the overlap check taking touching intervals as overlapping
overlaps_touching(whisper_seg, orig_seg) ==
    whisper_seg.start <= orig_seg.end /\ whisper_seg.end >= orig_seg.start

\* whisper_seg["start"] < orig_seg["end"] and whisper_seg["end"] > orig_seg["start"]
overlaps(whisper_seg, orig_seg) ==
    whisper_seg.start < orig_seg.end /\ whisper_seg.end > orig_seg.start

\* the text written for a cue that no segment overlaps ("[Keine Übersetzung]")
NO_TRANSLATION == <<"[Keine Uebersetzung]">>

\* the inner loop: the stripped texts of the segments from the k-th on that
\* overlap orig_seg
RECURSIVE matching_whisper_texts(_, _, _)
matching_whisper_texts(whisper_segments, orig_seg, k) ==
    IF k > Len(whisper_segments) THEN <<>>
    ELSE (IF overlaps(whisper_segments[k], orig_seg)
          THEN <<str_strip(whisper_segments[k].text)>> ELSE <<>>)
         \o matching_whisper_texts(whisper_segments, orig_seg, k + 1)

_map_whisper_to_original_timing(whisper_segments, original_segments) ==
    [i \in 1..Len(original_segments) |->
        LET orig_seg == original_segments[i]
            texts == matching_whisper_texts(whisper_segments, orig_seg, 1)
            combined_text == IF Len(texts) > 0 THEN join_str(texts, <<" ">>)
                             ELSE NO_TRANSLATION
        IN [index |-> orig_seg.index, timestamp |-> orig_seg.timestamp,
            text |-> str_strip(combined_text)]]

\* a segment of _parse_srt_timing
TimingSegment(index, start, end) ==
    [index |-> index, start |-> start, end |-> end,
     timestamp |-> TimeOf(start) \o <<" ","-","-",">"," ">> \o TimeOf(end)]

\* the cues: two that touch at second 2, or two with a gap between them
OriginalTimings == { <<TimingSegment(1, 1, 2), TimingSegment(2, 2, 3)>>,
                     <<TimingSegment(1, 0, 1), TimingSegment(2, 3, 4)>> }

\* the Whisper segments: a text with the leading space Whisper writes, one
\* with a trailing space, an empty one, over intervals between seconds 0 and 4
WhisperSegments ==
    [start : {0, 1, 2}, end : {1, 2, 4}, text : { <<" ","a">>, <<"b"," ">>, <<" ">> }]

InitWhisperMap ==
    /\ TransIdleButArgs
    /\ pc = "map_whisper"
    /\ \E ws \in SeqsUpTo({w \in WhisperSegments : w.start < w.end}, MaxWhisperSegments),
          os \in OriginalTimings :
           args = [whisper_segments |-> ws, original_segments |-> os]
    /\ SmartIdle

\* self._map_whisper_to_original_timing(result["segments"], original_segments)
MapWhisper ==
    /\ pc = "map_whisper"
    /\ ret' = Some(_map_whisper_to_original_timing(args.whisper_segments,
                                                   args.original_segments))
    /\ pc' = "mapped"
    /\ UNCHANGED <<trans_vars_but_pc, blocks, max_chars, translated_full, fs, cache, history>>

NextWhisperMap == MapWhisper

SpecWhisperMap == InitWhisperMap /\ [][NextWhisperMap]_vars

\* the positions of the Whisper segments whose interval overlaps the cue's:
\* it starts before the cue ends and ends after the cue starts
Overlapping(ws, cue) ==
    {k \in 1..Len(ws) : ws[k].start < cue.end /\ ws[k].end > cue.start}

\* the positions S in the order of the list
RECURSIVE in_list_order(_)
in_list_order(S) ==
    IF S = {} THEN <<>>
    ELSE LET k == CHOOSE m \in S : \A j \in S : m <= j
         IN <<k>> \o in_list_order(S \ {k})

\* the positions S by start time, those of equal start in the order of the
\* list
RECURSIVE in_time_order(_, _)
in_time_order(ws, S) ==
    IF S = {} THEN <<>>
    ELSE LET k == CHOOSE m \in S : \A j \in S :
                      \/ ws[m].start < ws[j].start
                      \/ (ws[m].start = ws[j].start /\ m <= j)
         IN <<k>> \o in_time_order(ws, S \ {k})

\* the text a cue is to receive from the segments at the positions ks, in
\* that order
ExpectedText(ws, ks) ==
    IF Len(ks) = 0 THEN NO_TRANSLATION
    ELSE str_strip(join_str([n \in 1..Len(ks) |-> str_strip(ws[ks[n]].text)], <<" ">>))

\* C23 as stated: every cue keeps its index and timestamp and receives the
\* texts of exactly the overlapping segments, joined by single spaces in the
\* chronological order of the segments, or the placeholder when there is none.
C23_Original ==
    pc = "mapped" =>
        /\ Len(ret[1]) = Len(args.original_segments)
        /\ \A i \in 1..Len(args.original_segments) :
               LET cue == args.original_segments[i]
                   ws == args.whisper_segments
               IN /\ ret[1][i].index = cue.index
                  /\ ret[1][i].timestamp = cue.timestamp
                  /\ ret[1][i].text = ExpectedText(ws, in_time_order(ws, Overlapping(ws, cue)))

\* C23: every cue keeps its index and timestamp and receives the texts of
\* exactly the overlapping segments (touching intervals do not overlap), each
\* stripped, joined by single spaces in the order of the segment list and
\* stripped, or the placeholder when there is none; that order is the
\* chronological one whenever the list is ordered by start time.
C23_OverlapTextsInListOrder ==
    pc = "mapped" =>
        /\ Len(ret[1]) = Len(args.original_segments)
        /\ \A i \in 1..Len(args.original_segments) :
               LET cue == args.original_segments[i]
                   ws == args.whisper_segments
                   S == Overlapping(ws, cue)
               IN /\ ret[1][i].index = cue.index
                  /\ ret[1][i].timestamp = cue.timestamp
                  /\ ret[1][i].text = ExpectedText(ws, in_list_order(S))
                  /\ (\A k \in 1..(Len(ws) - 1) : ws[k].start <= ws[k + 1].start)
                         => ret[1][i].text = ExpectedText(ws, in_time_order(ws, S))

\* the first cue (seconds 1 to 2) got " a" and "b " joined, the second
\* segment ending after second 2 also reached the second cue; or a segment
\* ending at second 1 only touched the first cue, which got the placeholder
C23_Witness ==
    /\ pc = "mapped"
    /\ Len(args.whisper_segments) = 2
    /\ args.original_segments[1].start = 1
    /\ \/ /\ args.whisper_segments[1] = [start |-> 0, end |-> 2, text |-> <<" ","a">>]
          /\ args.whisper_segments[2] = [start |-> 1, end |-> 4, text |-> <<"b"," ">>]
          /\ ret[1][1].text = <<"a"," ","b">>
          /\ ret[1][2].text = <<"b">>
       \/ /\ args.whisper_segments[1].end = 1
          /\ args.whisper_segments[2].end = 1
          /\ ret[1][1].text = NO_TRANSLATION

-----------------------------------------------------------------------------
(* translator.py: _translate_srt_google on its own                         *)

InitGoogle ==
    /\ TransIdleButArgs
    /\ pc = "_translate_srt_google"
    /\ args \in [source_lang : {S_en, S_de, S_auto}, target_lang : {S_de}]
    /\ blocks = <<>> /\ max_chars = 0 /\ translated_full = <<>>
    /\ \E bad \in BOOLEAN, q \in SeqsUpTo(GoogleTexts, MaxCues) :
           fs = [input_path |-> Some(SegmentFile(bad, 1, q)), output_path |-> None]
    /\ cache = None /\ history = <<>>
    /\ ret = None

\* self._translate_srt_google(input_path, source_lang, target_lang)
TranslateSrtGoogle ==
    /\ pc = "_translate_srt_google"
    /\ \E outcomes \in [1..Len(translator_parse_srt(fs.input_path[1])) -> GoogleOutcomes],
          io \in FileOutcomes :
         LET r == _translate_srt_google(fs.input_path[1], args.source_lang,
                                        args.target_lang, outcomes, io)
         IN /\ history' = r.backend
            /\ translated_full' = r.translated_segments
            /\ fs' = [fs EXCEPT !.output_path = r.written]
            /\ ret' = Some(IF IsNone(r.err) THEN Path("google") ELSE Raise(r.err[1]))
    /\ pc' = "returned"
    /\ UNCHANGED <<trans_vars_but_pc, blocks, max_chars, cache>>

NextGoogle == TranslateSrtGoogle

SpecGoogle == InitGoogle /\ [][NextGoogle]_vars

\* C24: whatever the backend does for each cue, a failure of the file
\* operations aside, _translate_srt_google raises nothing, makes one backend
\* call per parsed cue (none when the languages are equal), and writes one cue
\* per parsed cue, in order, with the same index and timestamp line; the cue
\* whose call failed carries its original text, every other one the text the
\* backend returned.
C24_CueFailureKeepsOriginal ==
    pc = "returned" =>
        LET segments == translator_parse_srt(fs.input_path[1])
            same == args.source_lang = args.target_lang
        IN \/ ret[1] = Raise(E_GOOGLE_IO) /\ IsNone(fs.output_path)
           \/ /\ ret[1] = Path("google")
              /\ Len(history) = (IF same THEN 0 ELSE Len(segments))
              /\ Len(translated_full) = Len(segments)
              /\ \A i \in 1..Len(segments) :
                     /\ translated_full[i].index = segments[i].index
                     /\ translated_full[i].timestamp = segments[i].timestamp
                     /\ (same \/ history[i].raised)
                            => translated_full[i].text = segments[i].text
                     /\ ~same => history[i].text = segments[i].text
              /\ fs.output_path = Some(translated_srt_text(translated_full, 1))

\* two cues were parsed, the backend failed for the first and answered "x"
\* for the second, and the function returned its path with both cues written
C24_Witness ==
    /\ pc = "returned"
    /\ ret[1] = Path("google")
    /\ Len(history) = 2
    /\ history[1].raised /\ ~history[2].raised
    /\ Len(translated_full) = 2
    /\ translated_full[1].text = <<"a","\n","b">>
    /\ translated_full[2].text = <<"x">>
    /\ ~IsNone(fs.output_path)

-----------------------------------------------------------------------------
(* translator.py: the google candidate of the auto loop                    *)

\* the positions of the google routine among the routine invocations
GoogleCalls == {i \in DOMAIN calls : calls[i].provider = "google"}

\* the errors the auto loop recorded for the google candidate
GoogleErrors == SelectSeq(AutoErrors, LAMBDA r : r.m = "google")

\* C28 as stated: in auto mode, once the google routine has been invoked the
\* invocation returns the google output path and the google invocation is
\* the last one made.
C28_Original ==
    (InAuto /\ GoogleCalls # {}) =>
        /\ result = Path("google")
        /\ Len(calls) \in GoogleCalls

\* C28: in auto mode, once the google routine has been invoked, either a
\* file operation of the google path raised (that error, and no other, is
\* recorded for google and the loop goes on), or the invocation has returned
\* the google output path with the google invocation the last one made, the
\* output written with one cue per parsed cue, and each cue whose backend
\* call failed carrying its source text. No failure of the translation
\* backend is ever recorded for google, even when every per-cue call failed.
C28_BackendFailureNeverFallsBack ==
    (InAuto /\ GoogleCalls # {}) =>
        LET segments == translator_parse_srt(fs.input_path[1])
        IN /\ \A i \in DOMAIN GoogleErrors : GoogleErrors[i].exc = E_GOOGLE_IO
           /\ \/ Len(GoogleErrors) > 0 /\ IsNone(fs.output_path)
              \/ /\ Done /\ result = Path("google")
                 /\ Len(calls) \in GoogleCalls
                 /\ Len(history) = Len(segments)
                 /\ Len(translated_full) = Len(segments)
                 /\ \A i \in 1..Len(segments) :
                        history[i].raised => translated_full[i].text = segments[i].text
                 /\ fs.output_path = Some(translated_srt_text(translated_full, 1))

\* an earlier candidate raised, then google was reached, every per-cue
\* backend call failed, and the invocation returned the google output with
\* the source texts
C28_Witness ==
    /\ InAuto /\ Done /\ result = Path("google")
    /\ Len(AutoErrors) = 1 /\ Len(GoogleErrors) = 0
    /\ Len(history) = 2 /\ history[1].raised /\ history[2].raised
    /\ idx < Len(order)
    /\ translated_full[2].text = <<"a","\n","b">>
    /\ ~IsNone(fs.output_path)

-----------------------------------------------------------------------------
(* smart_translation.py: translate_srt, from the input file to the output  *)

MaxFileBlocks == 3

E_NO_ENTRIES == "ValueError: No valid SRT entries found."
E_TRANSLATE_ONE == "Exception: translate_one"

\* the kinds of block an input file is made of: a cue that is a sentence, a
\* fragment, a cue without text, a block whose index line is not a number,
\* a block whose time line has no arrow
BlockKinds == {"sentence", "fragment", "no_text", "bad_index", "bad_time"}
MalformedKinds == {"bad_index", "bad_time"}

KindText(kind) ==
    IF kind = "sentence" THEN <<"a",".">>
    ELSE IF kind = "fragment" THEN <<"c">>
    ELSE IF kind = "no_text" THEN <<>>
    ELSE <<"d">>

\* the i-th block of a file, of the given kind (a file is named by the
\* kinds of its blocks)
FileBlock(kind, i) ==
    (IF kind = "bad_index" THEN <<"x">> ELSE int_str(i)) \o <<"\n">>
    \o TimeOf(i - 1)
    \o (IF kind = "bad_time" THEN <<" ">> ELSE <<" ","-","-",">"," ">>)
    \o TimeOf(i) \o <<"\n">> \o KindText(kind)

\* the content of the file with blocks of these kinds: nothing for no
\* block, else the blocks separated by blank lines and a newline at the end
SrtFile(kinds) ==
    IF Len(kinds) = 0 THEN <<>>
    ELSE join_str([i \in 1..Len(kinds) |-> FileBlock(kinds[i], i)], <<"\n","\n">>)
         \o <<"\n">>

\* the translate_text closure of translate_srt over the group texts from
\* the k-th on, with provider "openai", no model given and OPENAI_MODEL
\* unset: the translated groups, the cache dict, whether cache.set ran, and
\* the exception that ended it
RECURSIVE translate_groups(_, _, _, _, _, _)
translate_groups(texts, outcomes, k, data, outs, stored) ==
    IF k > Len(texts)
    THEN [err |-> None, outs |-> outs, data |-> data, stored |-> stored]
    ELSE LET key == _cache_key(S_openai, GPT_35_TURBO, S_en, S_de, texts[k])
             cached == dict_get(data, key)
         IN IF Truthy(cached)
            THEN translate_groups(texts, outcomes, k + 1, data, Append(outs, cached[1]), stored)
            ELSE IF outcomes[k].raises
            THEN [err |-> Some(E_TRANSLATE_ONE), outs |-> outs, data |-> data,
                  stored |-> stored]
            ELSE LET out == translate_one(Some(outcomes[k].translated))
                 IN translate_groups(texts, outcomes, k + 1, dict_set(data, key, out),
                                     Append(outs, out), TRUE)

\* the loop of the reflow branch over the groups from the k-th on: every
\* cue of a group's range gets the group's wrapped translation
RECURSIVE reflow_groups(_, _, _, _)
reflow_groups(out_blocks, groups, translated_groups, k) ==
    IF k > Len(groups) \/ k > Len(translated_groups) THEN out_blocks
    ELSE reflow_groups(
             [bi \in 1..Len(out_blocks) |->
                 IF groups[k][1] + 1 <= bi /\ bi <= groups[k][2] + 1
                 THEN SRTBlock(out_blocks[bi].index, out_blocks[bi].start, out_blocks[bi].end,
                               _wrap_two_lines(translated_groups[k], WRAP_WIDTH_DEFAULT))
                 ELSE out_blocks[bi]],
             groups, translated_groups, k + 1)

\* the reflow branch reconciling each group with its own cues
reconcile_per_group(keep_timing, bs, groups, translated_groups, tf) ==
    reflow_groups(bs, groups, translated_groups, 1)

\* the branch on keep_timing (lines 330-336)
reconcile(keep_timing, bs, groups, translated_groups, tf) ==
    IF keep_timing THEN _distribute_translation_over_blocks(bs, tf).out_blocks
    ELSE reflow_groups(bs, groups, translated_groups, 1)

\* what the provider does for one group: it raises, or replies
GroupOutcomes ==
    { Outcome(TRUE, <<>>), Outcome(FALSE, <<"x"," ","x"," ","x">>), Outcome(FALSE, <<"y">>) }

InitPipeline ==
    /\ TransIdleButArgs
    /\ args \in [input_path : SeqsUpTo(BlockKinds, MaxFileBlocks), keep_timing : BOOLEAN]
    /\ pc = "parse_srt"
    /\ blocks = <<>> /\ max_chars = MAX_CHARS_DEFAULT /\ translated_full = <<>>
    /\ fs = [input_path |-> Some(SrtFile(args.input_path)), output_path |-> None,
             cache_path |-> None]
    /\ cache = None /\ history = <<>>
    /\ ret = None

\* translate_srt up to the construction of the cache (lines 303-308)
PipelineParse ==
    /\ pc = "parse_srt"
    /\ LET bs == parse_srt(fs.input_path[1])
       IN /\ blocks' = bs
          /\ IF Len(bs) = 0
             THEN /\ ret' = Some(Raise(E_NO_ENTRIES))
                  /\ pc' = "raised"
                  /\ UNCHANGED cache
             ELSE /\ cache' = Some([path |-> CACHE_PATH,
                                    _data |-> IF IsNone(fs.cache_path) THEN <<>>
                                              ELSE fs.cache_path[1].items])
                  /\ pc' = "translate_text"
                  /\ UNCHANGED ret
    /\ UNCHANGED <<trans_vars_but_pc, max_chars, translated_full, fs, history>>

\* the translation of the groups and the joining of the results (lines
\* 327-328)
PipelineTranslate ==
    /\ pc = "translate_text"
    /\ LET groups == _split_into_sentence_groups(blocks, max_chars)
           texts == [k \in 1..Len(groups) |-> groups[k][3]]
       IN \E outcomes \in [1..Len(groups) -> GroupOutcomes] :
            LET r == translate_groups(texts, outcomes, 1, cache[1]._data, <<>>, FALSE)
            IN /\ history' = r.outs
               /\ cache' = Some([cache[1] EXCEPT !._data = r.data])
               /\ fs' = IF r.stored
                        THEN [fs EXCEPT !.cache_path = Some(FileContent(r.data, TRUE))]
                        ELSE fs
               /\ IF IsNone(r.err)
                  THEN /\ translated_full' = _normalize_whitespace(str_join(r.outs, " "))
                       /\ pc' = "reconcile"
                       /\ UNCHANGED ret
                  ELSE /\ ret' = Some(Raise(r.err[1]))
                       /\ pc' = "raised"
                       /\ UNCHANGED translated_full
    /\ UNCHANGED <<trans_vars_but_pc, blocks, max_chars>>

\* the reconciliation and write_srt (lines 330-341)
PipelineReconcile ==
    /\ pc = "reconcile"
    /\ LET groups == _split_into_sentence_groups(blocks, max_chars)
           out_blocks == reconcile(args.keep_timing, blocks, groups, history, translated_full)
       IN /\ fs' = [fs EXCEPT !.output_path = Some(write_srt(out_blocks))]
          /\ ret' = Some([kind |-> "path", by |-> "openai", err |-> "-",
                          out_blocks |-> out_blocks])
    /\ pc' = "returned"
    /\ UNCHANGED <<trans_vars_but_pc, blocks, max_chars, translated_full, cache, history>>

NextPipeline ==
    \/ PipelineParse
    \/ PipelineTranslate
    \/ PipelineReconcile

SpecPipeline == InitPipeline /\ [][NextPipeline]_vars

Malformed(kinds) == \E i \in 1..Len(kinds) : kinds[i] \in MalformedKinds

\* the cues of a file of these kinds: its well-formed blocks that have
\* text, in file order, with the index and the times of their blocks
ExpectedCues(kinds) ==
    LET all == [i \in 1..Len(kinds) |->
                   [kind |-> kinds[i],
                    cue |-> SRTBlock(i, TimeOf(i - 1), TimeOf(i), KindText(kinds[i]))]]
        kept == SelectSeq(all, LAMBDA e : e.kind \notin MalformedKinds /\ e.kind # "no_text")
    IN [i \in 1..Len(kept) |-> kept[i].cue]

Parsed == pc # "parse_srt"

C25_WitnessSkipped ==
    /\ pc = "returned"
    /\ args.input_path = <<"sentence", "bad_time", "fragment">>
    /\ Len(blocks) = 2 /\ blocks[2].index = 3

\* the words of a text
WordsOf(text) == str_words(_normalize_whitespace(text))

\* the words of the texts q, one text after the other
RECURSIVE AllWords(_)
AllWords(q) == IF Len(q) = 0 THEN <<>> ELSE WordsOf(q[1]) \o AllWords(Tail(q))

CueTextsOf(bs) == [i \in 1..Len(bs) |-> bs[i].text]

-----------------------------------------------------------------------------
(* validation_dialog.py: ValidationDialog between the UI thread and the    *)
(* background thread                                                       *)

MaxTicks == 3

\* the timeouts wait_for_choice is called with, in ticks of the clock
Timeouts == {1, 2}

\* self.user_choice or "abort" with "proceed" as the fallback
choice_or_proceed(user_choice) ==
    IF Truthy(user_choice) THEN user_choice[1] ELSE "proceed"

\* self.user_choice or "abort"
choice_or_abort(user_choice) ==
    IF Truthy(user_choice) THEN user_choice[1] ELSE "abort"

\* the steps taken so far that are named n
StepsNamed(n) == {i \in DOMAIN history : history[i] = n}

\* the ticks of the clock since event.wait was entered
TicksWaited ==
    Cardinality({i \in StepsNamed("tick") : \E w \in StepsNamed("event.wait") : w < i})

\* ValidationDialog(root, result) (lines 21-25); here self is the dialog,
\* pc the position of each thread, history the steps taken
InitDialog ==
    /\ avail = [SMART_TRANSLATION_AVAILABLE |-> FALSE, OPENAI_PROVIDER_AVAILABLE |-> FALSE,
                TRANSLATORS_AVAILABLE |-> FALSE, WHISPER_AVAILABLE |-> FALSE]
    /\ self = [user_choice |-> None, event |-> FALSE, dialog |-> "none"]
    /\ args \in [timeout : Timeouts]
    /\ os_environ = EnvUnread
    /\ pc = [ui |-> "idle", background |-> "idle"]
    /\ order = <<>> /\ idx = 0 /\ last_err = None /\ log = <<>> /\ calls = <<>>
    /\ whisper_steps = <<>> /\ result = NoResult /\ de = None /\ given = NoGiven
    /\ blocks = <<>> /\ max_chars = 0 /\ translated_full = <<>>
    /\ fs = <<>> /\ cache = None /\ history = <<>>
    /\ ret = None

DialogUnchanged ==
    UNCHANGED <<avail, args, os_environ, order, idx, last_err, log, calls, whisper_steps,
                result, de, given, blocks, max_chars, translated_full, fs, cache>>

\* show() in the UI thread (lines 27-101)
Show ==
    /\ pc.ui = "idle"
    /\ self' = [self EXCEPT !.dialog = "shown"]
    /\ pc' = [pc EXCEPT !.ui = "shown"]
    /\ history' = Append(history, "show")
    /\ UNCHANGED ret
    /\ DialogUnchanged

\* _on_proceed: self.user_choice = "proceed" (line 105)
OnProceed ==
    /\ pc.ui = "shown"
    /\ self' = [self EXCEPT !.user_choice = Some("proceed")]
    /\ pc' = [pc EXCEPT !.ui = "destroy"]
    /\ history' = Append(history, "_on_proceed")
    /\ UNCHANGED ret
    /\ DialogUnchanged

\* _on_abort: self.user_choice = "abort" (line 111)
OnAbort ==
    /\ pc.ui = "shown"
    /\ self' = [self EXCEPT !.user_choice = Some("abort")]
    /\ pc' = [pc EXCEPT !.ui = "destroy"]
    /\ history' = Append(history, "_on_abort")
    /\ UNCHANGED ret
    /\ DialogUnchanged

\* self.dialog.destroy() of the handler (lines 106, 112)
Destroy ==
    /\ pc.ui = "destroy"
    /\ self' = [self EXCEPT !.dialog = "destroyed"]
    /\ pc' = [pc EXCEPT !.ui = "set"]
    /\ history' = Append(history, "destroy")
    /\ UNCHANGED ret
    /\ DialogUnchanged

\* self.event.set() of the handler (lines 107, 113)
EventSet ==
    /\ pc.ui = "set"
    /\ self' = [self EXCEPT !.event = TRUE]
    /\ pc' = [pc EXCEPT !.ui = "closed"]
    /\ history' = Append(history, "event.set")
    /\ UNCHANGED ret
    /\ DialogUnchanged

\* the background thread enters self.event.wait(timeout=timeout) (line 121)
EventWait ==
    /\ pc.background = "idle"
    /\ pc' = [pc EXCEPT !.background = "event.wait"]
    /\ history' = Append(history, "event.wait")
    /\ UNCHANGED <<self, ret>>
    /\ DialogUnchanged

\* event.wait returns because the event is set
WaitSignalled ==
    /\ pc.background = "event.wait"
    /\ self.event
    /\ pc' = [pc EXCEPT !.background = "return"]
    /\ history' = Append(history, "signalled")
    /\ UNCHANGED <<self, ret>>
    /\ DialogUnchanged

\* event.wait returns because the timeout has elapsed
WaitTimedOut ==
    /\ pc.background = "event.wait"
    /\ ~self.event
    /\ TicksWaited >= args.timeout
    /\ pc' = [pc EXCEPT !.background = "return"]
    /\ history' = Append(history, "timeout")
    /\ UNCHANGED <<self, ret>>
    /\ DialogUnchanged

\* return self.user_choice or "abort" (line 122)
ReturnChoice ==
    /\ pc.background = "return"
    /\ ret' = Some(choice_or_abort(self.user_choice))
    /\ pc' = [pc EXCEPT !.background = "returned"]
    /\ history' = Append(history, "return")
    /\ UNCHANGED self
    /\ DialogUnchanged

\* the clock advances
Tick ==
    /\ pc.background # "returned"
    /\ Cardinality(StepsNamed("tick")) < MaxTicks
    /\ history' = Append(history, "tick")
    /\ UNCHANGED <<self, pc, ret>>
    /\ DialogUnchanged

NextDialog ==
    \/ Show
    \/ OnProceed
    \/ OnAbort
    \/ Destroy
    \/ EventSet
    \/ EventWait
    \/ WaitSignalled
    \/ WaitTimedOut
    \/ ReturnChoice
    \/ Tick

SpecDialog == InitDialog /\ [][NextDialog]_vars

\* the first step named n, 0 when there is none
FirstStep(n) ==
    IF StepsNamed(n) = {} THEN 0
    ELSE CHOOSE i \in StepsNamed(n) : \A j \in StepsNamed(n) : i <= j

Returned == pc.background = "returned"

\* the handler that has stored its choice, if any
Chosen ==
    IF StepsNamed("_on_proceed") # {} THEN Some("proceed")
    ELSE IF StepsNamed("_on_abort") # {} THEN Some("abort")
    ELSE None

StoredAt == FirstStep("_on_proceed") + FirstStep("_on_abort")

\* C30 as stated: once wait_for_choice has returned, (1) it returned
\* "proceed" only if _on_proceed ran before, (2) it returned "abort" if the
\* timeout elapsed while no choice had been made, and (3) if a handler had
\* run to its end before the wait was over, it returned that handler's choice
C30_Original ==
    Returned =>
        /\ ret = Some("proceed") => StepsNamed("_on_proceed") # {}
        /\ (StepsNamed("timeout") # {}
              /\ (StoredAt = 0 \/ StoredAt > FirstStep("timeout")))
               => ret = Some("abort")
        /\ (StepsNamed("event.set") # {}
              /\ FirstStep("event.set") < FirstStep("timeout") + FirstStep("signalled"))
               => ret = Chosen

\* C30: once wait_for_choice has returned, it returned "proceed" only if
\* _on_proceed had stored its choice before; it returned "abort" if no
\* handler had stored a choice by then, whether or not the timeout had
\* elapsed before; and it returned the choice of the handler that had stored
\* one, be it before the event was set or after the timeout had elapsed. The
\* choice is stored before the event is set, so a wait ended by the event
\* returns the handler's choice.
C30_ReturnsChoiceStoredByReturn ==
    /\ self.event => Truthy(self.user_choice)
    /\ Returned =>
        LET stored == StoredAt # 0 /\ StoredAt < FirstStep("return")
        IN /\ ret = Some("proceed") =>
                  (stored /\ FirstStep("_on_proceed") = StoredAt)
           /\ ~stored => ret = Some("abort")
           /\ stored => ret = Chosen
           /\ StepsNamed("signalled") # {} => (stored /\ ret = Chosen)
           /\ StepsNamed("timeout") # {} => TicksWaited >= args.timeout

\* the timeout elapsed with no choice made, _on_proceed stored its choice
\* before the background thread read it, and "proceed" was returned
C30_Witness ==
    /\ Returned
    /\ ret = Some("proceed")
    /\ StepsNamed("timeout") # {}
    /\ FirstStep("timeout") < FirstStep("_on_proceed")
    /\ ~self.event

====
